---- MODULE Spec2Model ----
(***************************************************************************)
(* State-machine model of the client synchronisation layer:                *)
(*   - WebSocketManager (src/src/websocket.ts): connection life cycle,     *)
(*     bounded reconnection, send, subscription registry and dispatch;     *)
(*   - DragDropManager (src/src/utils/apiHelpers.ts): the drag session and *)
(*     the MoveChess intent it emits through sendMoveChess.                *)
(* JavaScript is single threaded: every handler is one atomic action.  The *)
(* continuation of an `await` is a separate action (a microtask) that runs *)
(* before any further event-loop task (socket event, timer).               *)
(***************************************************************************)
EXTENDS Integers, Sequences, FiniteSets, TLC

VARIABLES
    socket,             \* WebSocketManager.socket: Null or the id of a socket object
    readyState,         \* readyState of every socket object still able to raise events
    reconnectAttempts,  \* WebSocketManager.reconnectAttempts
    timers,             \* number of pending setTimeout(() => this.connect()) timers
    autoReconnect,      \* WebSocketManager.autoReconnect (constructor argument)
    eventListeners,     \* WebSocketManager.eventListeners: Map type -> callback array
    transmitted,        \* ids of the send() calls whose envelope went to socket.send
    rejected,           \* ids of the send() calls whose promise was rejected
    nextId,             \* id given to the next send() call
    out,                \* what the last handler did: its name, arguments and outputs
    closeRun,           \* history: unexpected closes since the last clean open, -1 = not tracked
    scheduledSinceOpen, \* history: reconnects scheduled since the last open
    disconnected,       \* history: disconnect() was called and connect() not since
    reopened,           \* history: an open has reset a retry counter that was above zero
    currentDrag,        \* DragDropManager.currentDrag: NoDrag (null) or the session's data
    pendingDrops,       \* drop() calls suspended at `await sendMoveChess(...)`, oldest first
    dragStartCallbacks, \* DragDropManager.dragStartCallbacks
    dragMoveCallbacks,  \* DragDropManager.dragMoveCallbacks
    dragEndCallbacks,   \* DragDropManager.dragEndCallbacks
    dropCallbacks,      \* DragDropManager.dropCallbacks
    dragTrace,          \* history: the session startDrag made, while only moveDrag followed
    state,              \* the state mirror: the singleton `state` of gameState
    heap,               \* the ChessPiece objects, by reference
    snapshots,          \* history: the value each piece had when startDrag last took it
    benchDragging,      \* BenchUI.isDragging
    draggedPiece,       \* BenchUI.draggedPiece: "null" or the piece taken from state.bench
    sellZoneHighlighted,\* BenchUI.sellZoneHighlighted
    boardDragging,      \* BoardUI.isDragging
    pointerDown,        \* the mouse button is held down
    stateShop,          \* state.shop, the shop field of the state mirror
    shownShop,          \* ShopUI: the shop items its cards display
    refreshEnabled,     \* ShopUI.refreshButton.element.enabled
    boardRotation,      \* BoardUI.boardRotation, in steps of RotationStep
    hexGrid,            \* BoardUI.hexGrid: the array of { coord, index }
    cellPositions,      \* local position of every entity of BoardUI.cells, by index
    pieceTags,          \* the hex-q / hex-r / hex-s tags of every entity of BoardUI.pieces
    piecePositions,     \* local position of every entity of BoardUI.pieces
    currentScene,       \* SceneManager.currentScene
    sceneEntities,      \* SceneManager.sceneEntities: Map SceneType -> entity
    enabled             \* the `enabled` flag of every scene root entity

connVars == <<socket, readyState, reconnectAttempts, timers, autoReconnect>>
txVars   == <<transmitted, rejected, nextId>>
histVars == <<closeRun, scheduledSinceOpen, disconnected, reopened>>
dragSubs == <<dragStartCallbacks, dragMoveCallbacks, dragEndCallbacks, dropCallbacks>>
dragAll  == <<currentDrag, pendingDrops, dragSubs, dragTrace>>
mirrorVars == <<state, heap, snapshots>>
gestureVars == <<benchDragging, draggedPiece, sellZoneHighlighted, boardDragging>>
shopVars == <<stateShop, shownShop, refreshEnabled>>
rotationVars == <<boardRotation, hexGrid, cellPositions, pieceTags, piecePositions>>
sceneVars == <<currentScene, sceneEntities, enabled>>
uiVars == <<gestureVars, shopVars, rotationVars, sceneVars>>
viewVars == <<uiVars, pointerDown>>
vars     == <<connVars, eventListeners, txVars, out, histVars, dragAll, mirrorVars, viewVars>>

(***************************************************************************)
(* Bounds of the model.                                                    *)
(***************************************************************************)
maxReconnectAttempts == 2   \* the constructor argument maxReconnectAttempts
MaxSockets == 2             \* socket objects alive, or owed by a pending timer, at once
MaxSends == 2               \* send() calls in one behaviour
MaxRegistrations == 3       \* registrations held by eventListeners at once
MaxDrops == 1               \* endDrag(target) calls that reach drop() in one behaviour
MaxPending == 1             \* drop() calls suspended at once
MaxDragSubscriptions == 2   \* registrations held by the drag manager's four lists
MaxLevel == 3               \* the level up to which the Buy XP button is clicked
Margin == 2                 \* grid positions asked about beyond the images of the disk
MaxTurns == 3               \* rotation steps the board is turned away from its first position

Null == 0
playerId == "player"
SocketIds == 1..MaxSockets
Types == {"MoveChessResult", "RefreshShopResult"}
SendTypes == {"RefreshShop", "BuyXP"}

Min(a, b) == IF a < b THEN a ELSE b

\* The outputs of a handler that outputs nothing.
Quiet(op) == [op |-> op, arg |-> <<>>, result |-> "ok", scheduled |-> FALSE,
              logged |-> FALSE, invoked |-> <<>>, notes |-> <<>>, sent |-> <<>>,
              fired |-> <<>>, value |-> <<>>]

\* Promise continuations run before the event loop takes its next task.
MicrotasksDone == pendingDrops = <<>>

(***************************************************************************)
(* WebSocketManager: connection life cycle.                                *)
(***************************************************************************)
Live == {s \in SocketIds : readyState[s] # "NONE"}
FreeIds == SocketIds \ Live

\* isConnected(): this.socket !== null && this.socket.readyState === OPEN
IsConnected == socket # Null /\ readyState[socket] = "OPEN"

\* new WebSocket(this.url): a fresh socket object.
NewSocket == CHOOSE s \in FreeIds : \A f \in FreeIds : s <= f

\* The body of connect(): a new socket object replaces this.socket; the handlers
\* of the previous object, if any, stay bound to the manager.
ConnectEffect(s) ==
    /\ readyState' = [readyState EXCEPT ![s] = "CONNECTING"]
    /\ socket' = s

\* connect() called by the application.
Connect ==
    /\ Cardinality(Live) + timers < MaxSockets
    /\ FreeIds # {}
    /\ ConnectEffect(NewSocket)
    /\ disconnected' = FALSE
    /\ closeRun' = -1
    /\ out' = Quiet("connect")
    /\ UNCHANGED <<dragAll, mirrorVars, viewVars>>
    /\ UNCHANGED <<reconnectAttempts, timers, autoReconnect, eventListeners, txVars,
                   scheduledSinceOpen, reopened>>

\* The timer set by onclose fires: () => this.connect().
ReconnectTimer ==
    /\ timers > 0
    /\ MicrotasksDone
    /\ timers' = timers - 1
    /\ FreeIds # {}
    /\ ConnectEffect(NewSocket)
    /\ out' = Quiet("reconnect")
    /\ UNCHANGED <<dragAll, mirrorVars, viewVars>>
    /\ UNCHANGED <<reconnectAttempts, autoReconnect, eventListeners, txVars, histVars>>

\* Mutant: onopen leaves the retry counter as it is.
AttemptsAfterOpenKept(attempts) == attempts

\* onopen: this.reconnectAttempts = 0
AttemptsAfterOpen(attempts) == 0

\* socket.onopen
SocketOpen(s) ==
    /\ readyState[s] = "CONNECTING"
    /\ MicrotasksDone
    /\ readyState' = [readyState EXCEPT ![s] = "OPEN"]
    /\ reconnectAttempts' = AttemptsAfterOpen(reconnectAttempts)
    /\ reopened' = (reopened \/ reconnectAttempts > 0)
    /\ scheduledSinceOpen' = 0
    /\ closeRun' = IF Live = {s} /\ timers = 0 /\ socket = s THEN 0 ELSE -1
    /\ out' = Quiet("open")
    /\ UNCHANGED <<dragAll, mirrorVars, viewVars>>
    /\ UNCHANGED <<socket, timers, autoReconnect, eventListeners, txVars, disconnected>>

\* Mutant: the retry test off by one.
ShouldReconnectInclusive == autoReconnect /\ reconnectAttempts <= maxReconnectAttempts

\* Mutant: the retry test without the budget.
ShouldReconnectUnbounded == autoReconnect

\* The condition under which onclose schedules a reconnect.
ShouldReconnect == autoReconnect /\ reconnectAttempts < maxReconnectAttempts

\* socket.onclose of socket object s (preceded by onerror, which only rejects the
\* promise of connect(), when the connection attempt failed).  The handler clears
\* this.socket whichever socket object raised the event.
SocketClose(s) ==
    /\ readyState[s] \in {"CONNECTING", "OPEN", "CLOSING"}
    /\ MicrotasksDone
    /\ readyState' = [readyState EXCEPT ![s] = "NONE"]
    /\ socket' = Null
    /\ IF ShouldReconnect
         THEN /\ reconnectAttempts' = reconnectAttempts + 1
              /\ timers' = timers + 1
              /\ scheduledSinceOpen' = Min(scheduledSinceOpen + 1, maxReconnectAttempts + 1)
         ELSE UNCHANGED <<reconnectAttempts, timers, scheduledSinceOpen>>
    /\ closeRun' = IF readyState[s] = "CLOSING" \/ closeRun < 0 THEN -1 ELSE closeRun + 1
    /\ out' = [Quiet("close") EXCEPT !.scheduled = ShouldReconnect]
    /\ UNCHANGED <<dragAll, mirrorVars, viewVars>>
    /\ UNCHANGED <<autoReconnect, eventListeners, txVars, disconnected, reopened>>

\* disconnect()
Disconnect ==
    /\ IF socket # Null
         THEN /\ readyState' = [readyState EXCEPT ![socket] = "CLOSING"]
              /\ socket' = Null
         ELSE UNCHANGED <<socket, readyState>>
    /\ disconnected' = TRUE
    /\ closeRun' = -1
    /\ out' = Quiet("disconnect")
    /\ UNCHANGED <<dragAll, mirrorVars, viewVars>>
    /\ UNCHANGED <<reconnectAttempts, timers, autoReconnect, eventListeners, txVars,
                   scheduledSinceOpen, reopened>>

(***************************************************************************)
(* WebSocketManager.send                                                   *)
(***************************************************************************)
\* JSON.stringify({ type, payload }), tagged with the id of the send() call.
Envelope(id, type, payload) == [id |-> id, type |-> type, payload |-> payload]

\* Mutant: send() without the readiness guard.
SendWireUnguarded(open, env) == <<env>>

\* What send() hands to socket.send: nothing unless the channel is open.
SendWire(open, env) == IF open THEN <<env>> ELSE <<>>

\* How the promise of send() settles.
SendResult == IF IsConnected THEN "resolved" ELSE "rejected"

\* send(type, payload), called by the handler whose outputs are `o`: the
\* promise executor runs synchronously.
SendEffect(o, type, payload) ==
    LET sent == SendWire(IsConnected, Envelope(nextId, type, payload))
    IN /\ out' = [o EXCEPT !.sent = sent, !.result = SendResult]
       /\ transmitted' = transmitted \cup {sent[i].id : i \in 1..Len(sent)}
       /\ rejected' = IF IsConnected THEN rejected ELSE rejected \cup {nextId}
       /\ nextId' = nextId + 1

Send(type, payload) ==
    /\ nextId <= MaxSends
    /\ SendEffect(Quiet("send"), type, payload)
    /\ UNCHANGED <<dragAll, mirrorVars, viewVars>>
    /\ UNCHANGED <<connVars, eventListeners, histVars>>

(***************************************************************************)
(* WebSocketManager: subscription registry and dispatch.                   *)
(***************************************************************************)
\* The callbacks the application registers (type MessageCallback), and what a
\* call of each does: return, throw, or unsubscribe itself from the type being
\* dispatched.
Callbacks == {"cbA", "cbB", "cbThrow", "cbOff"}
Behaviour(cb) ==
    CASE cb = "cbThrow" -> "throw"
      [] cb = "cbOff" -> "off"
      [] OTHER -> "return"

Payloads == {"p1", "p2"}

\* The frames the server may deliver: event.data.
Frames ==
    [kind : {"envelope"}, type : Types \cup {"UnknownNotice"}, payload : Payloads]
    \cup [kind : {"notype"}, type : {""}, payload : Payloads]
    \cup [kind : {"garbage", "null"}, type : {""}, payload : {""}]

\* JSON.parse(event.data) followed by const { type, payload } = message:
\* text that is not JSON makes JSON.parse throw, the JSON value null makes the
\* destructuring throw, an object without `type` leaves type undefined.
Parse(frame) ==
    [threw |-> frame.kind \in {"garbage", "null"},
     hasType |-> frame.kind = "envelope",
     type |-> frame.type,
     payload |-> frame.payload]

Has(listeners, type) == type \in DOMAIN listeners
Get(listeners, type) == IF Has(listeners, type) THEN listeners[type] ELSE <<>>
Set(listeners, type, callbacks) ==
    [t \in DOMAIN listeners \cup {type} |-> IF t = type THEN callbacks ELSE listeners[t]]

Registrations(listeners) ==
    LET RECURSIVE Sum(_)
        Sum(ts) == IF ts = {} THEN 0
                   ELSE LET t == CHOOSE x \in ts : TRUE
                        IN Len(listeners[t]) + Sum(ts \ {t})
    IN Sum(DOMAIN listeners)

\* callbacks.indexOf(callback), 0 when absent.
IndexOf(callbacks, cb) ==
    IF \E i \in 1..Len(callbacks) : callbacks[i] = cb
      THEN CHOOSE i \in 1..Len(callbacks) :
             callbacks[i] = cb /\ \A j \in 1..(i - 1) : callbacks[j] # cb
      ELSE 0

\* callbacks.splice(index, 1)
Splice(callbacks, index) ==
    [i \in 1..(Len(callbacks) - 1) |->
        IF i < index THEN callbacks[i] ELSE callbacks[i + 1]]

\* on(type, callback)
OnEffect(listeners, type, cb) ==
    Set(listeners, type, Append(Get(listeners, type), cb))

\* off(type, callback)
OffEffect(listeners, type, cb) ==
    IF ~Has(listeners, type) THEN listeners
    ELSE LET index == IndexOf(listeners[type], cb)
         IN IF index # 0 THEN Set(listeners, type, Splice(listeners[type], index))
            ELSE listeners

On(type, cb) ==
    /\ Registrations(eventListeners) < MaxRegistrations
    /\ eventListeners' = OnEffect(eventListeners, type, cb)
    /\ out' = [Quiet("on") EXCEPT !.arg = <<type, cb>>]
    /\ UNCHANGED <<dragAll, mirrorVars, viewVars>>
    /\ UNCHANGED <<connVars, txVars, histVars>>

Off(type, cb) ==
    /\ eventListeners' = OffEffect(eventListeners, type, cb)
    /\ out' = [Quiet("off") EXCEPT !.arg = <<type, cb>>]
    /\ UNCHANGED <<dragAll, mirrorVars, viewVars>>
    /\ UNCHANGED <<connVars, txVars, histVars>>

\* callbacks.forEach(callback => callback(payload)) from index k on, over the
\* array registered for the type: forEach visits the indices below the length
\* the array had when it started and skips those the array no longer has; the
\* array is the registry's own, so an off() made by a callback edits it under
\* the iteration; a callback that throws ends the iteration.
RECURSIVE ForEachCallback(_, _, _, _, _)
ForEachCallback(listeners, type, payload, k, len) ==
    IF k > len THEN [listeners |-> listeners, invoked |-> <<>>, threw |-> FALSE]
    ELSE IF k > Len(listeners[type])
      THEN ForEachCallback(listeners, type, payload, k + 1, len)
    ELSE
      LET cb == listeners[type][k]
          call == [cb |-> cb, type |-> type, payload |-> payload]
      IN IF Behaviour(cb) = "throw"
           THEN [listeners |-> listeners, invoked |-> <<call>>, threw |-> TRUE]
           ELSE LET after == IF Behaviour(cb) = "off"
                               THEN OffEffect(listeners, type, cb)
                               ELSE listeners
                    rest == ForEachCallback(after, type, payload, k + 1, len)
                IN [rest EXCEPT !.invoked = <<call>> \o @]

\* The body of socket.onmessage: what it leaves in the registry, whom it
\* invoked, and whether its catch block logged an error.
Dispatch(listeners, frame) ==
    LET m == Parse(frame)
    IN IF m.threw
         THEN [listeners |-> listeners, invoked |-> <<>>, logged |-> TRUE]
       ELSE IF m.hasType /\ Has(listeners, m.type)
         THEN LET r == ForEachCallback(listeners, m.type, m.payload, 1,
                                       Len(listeners[m.type]))
              IN [listeners |-> r.listeners, invoked |-> r.invoked, logged |-> r.threw]
       ELSE [listeners |-> listeners, invoked |-> <<>>, logged |-> FALSE]

\* socket.onmessage of socket object s.
OnMessage(s, frame) ==
    /\ readyState[s] = "OPEN"
    /\ MicrotasksDone
    /\ LET d == Dispatch(eventListeners, frame)
       IN /\ eventListeners' = d.listeners
          /\ out' = [Quiet("message") EXCEPT !.arg = frame, !.invoked = d.invoked,
                                              !.logged = d.logged]
    /\ UNCHANGED <<dragAll, mirrorVars, viewVars>>
    /\ UNCHANGED <<connVars, txVars, histVars>>

(***************************************************************************)
(* DragDropManager                                                         *)
(***************************************************************************)
\* Position = BenchPosition | BoardPosition; NoPosition is `undefined`.
NoPosition == [type |-> "none", index |-> 0, x |-> 0, y |-> 0]
Bench(i) == [type |-> "bench", index |-> i, x |-> 0, y |-> 0]
Board(x, y) == [type |-> "board", index |-> 0, x |-> x, y |-> y]

\* The pieces and positions the callers pass.
Pieces == {"piece"}
Sources == {Bench(0), Board(0, 3)}
Targets == {Bench(9), Board(3, 1)}
Pointers == {<<10, 10>>}
Subscribers == {"sub"}

\* DragEventData, and the null of currentDrag.
DragEventData(piece, source, target) ==
    [chessPiece |-> piece, source |-> source, target |-> target]
NoDrag == DragEventData("null", NoPosition, NoPosition)

\* The constructor's defaults, with which the singleton dragDropManager is made.
boardWidth == 8
boardHeight == 3
benchSize == 9

\* Mutant: the bench bound off by one.
IsValidPositionInclusive(position) ==
    IF position.type = "bench"
      THEN position.index >= 0 /\ position.index <= benchSize
      ELSE /\ position.x >= 0 /\ position.x < boardWidth
           /\ position.y >= 0 /\ position.y < boardHeight

\* isValidPosition(position)
IsValidPosition(position) ==
    IF position.type = "bench"
      THEN position.index >= 0 /\ position.index < benchSize
      ELSE /\ position.x >= 0 /\ position.x < boardWidth
           /\ position.y >= 0 /\ position.y < boardHeight

\* The positions callers ask about.
Queried == {Bench(9), Board(3, 1)}

\* A call of isValidPosition(position): it returns and assigns nothing.
ValidityQuery(position) ==
    /\ out' = [Quiet("isValidPosition") EXCEPT !.arg = position,
                  !.result = IF IsValidPosition(position) THEN "true" ELSE "false"]
    /\ UNCHANGED <<mirrorVars, viewVars, connVars, eventListeners, txVars, histVars, dragAll>>

\* A JSON value that is a string, and one that is an array.
JsonString(str) == [str |-> str, arr |-> <<>>]
JsonArray(arr) == [str |-> "", arr |-> arr]

\* drop(): source position in API format.
FromParam(source) ==
    IF source.type = "bench"
      THEN JsonString("bench-" \o ToString(source.index))
      ELSE JsonArray(<<source.x, source.y>>)

\* Mutant: a bench target formatted like a bench source.
ToParamIndexed(target) ==
    IF target.type = "bench"
      THEN JsonString("bench-" \o ToString(target.index))
      ELSE JsonArray(<<target.x, target.y>>)

\* drop(): target position in API format.
ToParam(target) ==
    IF target.type = "bench"
      THEN JsonString("bench")
      ELSE JsonArray(<<target.x, target.y>>)

\* A forEach over a subscriber list: one notification each, in order.
Notify(callbacks, kind, data, success) ==
    [i \in 1..Len(callbacks) |->
        [kind |-> kind, sub |-> callbacks[i], data |-> data, success |-> success]]

\* The data object a suspended drop() holds: the session object itself while
\* currentDrag still refers to it, else as it was when currentDrag let go of it.
DataOf(drop) == IF drop.attached THEN currentDrag ELSE drop.data

\* currentDrag is assigned: the suspended drops keep the object they hold.
Detached(drops) ==
    [i \in 1..Len(drops) |->
        [data |-> DataOf(drops[i]), attached |-> FALSE, resolved |-> drops[i].resolved]]

DragSubscriptions ==
    Len(dragStartCallbacks) + Len(dragMoveCallbacks) + Len(dragEndCallbacks)
      + Len(dropCallbacks)

\* onDragStart / onDragMove / onDragEnd / onDrop
OnDragStart(sub) ==
    /\ DragSubscriptions < MaxDragSubscriptions
    /\ dragStartCallbacks' = Append(dragStartCallbacks, sub)
    /\ dragTrace' = NoDrag
    /\ out' = Quiet("onDragStart")
    /\ UNCHANGED <<mirrorVars, viewVars, connVars, eventListeners, txVars, histVars, currentDrag, pendingDrops,
                   dragMoveCallbacks, dragEndCallbacks, dropCallbacks>>

OnDragMove(sub) ==
    /\ DragSubscriptions < MaxDragSubscriptions
    /\ dragMoveCallbacks' = Append(dragMoveCallbacks, sub)
    /\ dragTrace' = NoDrag
    /\ out' = Quiet("onDragMove")
    /\ UNCHANGED <<mirrorVars, viewVars, connVars, eventListeners, txVars, histVars, currentDrag, pendingDrops,
                   dragStartCallbacks, dragEndCallbacks, dropCallbacks>>

OnDragEnd(sub) ==
    /\ DragSubscriptions < MaxDragSubscriptions
    /\ dragEndCallbacks' = Append(dragEndCallbacks, sub)
    /\ dragTrace' = NoDrag
    /\ out' = Quiet("onDragEnd")
    /\ UNCHANGED <<mirrorVars, viewVars, connVars, eventListeners, txVars, histVars, currentDrag, pendingDrops,
                   dragStartCallbacks, dragMoveCallbacks, dropCallbacks>>

OnDrop(sub) ==
    /\ DragSubscriptions < MaxDragSubscriptions
    /\ dropCallbacks' = Append(dropCallbacks, sub)
    /\ dragTrace' = NoDrag
    /\ out' = Quiet("onDrop")
    /\ UNCHANGED <<mirrorVars, viewVars, connVars, eventListeners, txVars, histVars, currentDrag, pendingDrops,
                   dragStartCallbacks, dragMoveCallbacks, dragEndCallbacks>>

\* The body of startDrag(chessPiece, source), as the handler whose outputs are
\* `o` runs it.
StartDragEffect(o, piece, source) ==
    LET data == DragEventData(piece, source, NoPosition)
    IN /\ currentDrag' = data
       /\ pendingDrops' = Detached(pendingDrops)
       /\ dragTrace' = data
       /\ out' = [o EXCEPT !.notes = Notify(dragStartCallbacks, "start", data, TRUE)]
       /\ snapshots' = [snapshots EXCEPT ![piece] = heap[piece]]
       /\ UNCHANGED <<state, heap, connVars, eventListeners, txVars, histVars, dragSubs>>

\* startDrag(chessPiece, source)
StartDrag(piece, source) ==
    /\ StartDragEffect(Quiet("startDrag"), piece, source)
    /\ UNCHANGED viewVars

\* moveDrag(x, y)
MoveDrag(pointer) ==
    /\ out' = [Quiet("moveDrag") EXCEPT !.arg = pointer,
                  !.notes = IF currentDrag = NoDrag THEN <<>>
                            ELSE Notify(dragMoveCallbacks, "move", currentDrag, TRUE)]
    /\ UNCHANGED <<mirrorVars, viewVars, connVars, eventListeners, txVars, histVars, dragAll>>

\* The body of cancelDrag(), as the handler `op` called with `arg` runs it.
CancelDragEffect(op, arg) ==
    /\ currentDrag' = NoDrag
    /\ pendingDrops' = IF currentDrag = NoDrag THEN pendingDrops ELSE Detached(pendingDrops)
    /\ out' = [Quiet(op) EXCEPT !.arg = arg,
                  !.notes = IF currentDrag = NoDrag THEN <<>>
                            ELSE Notify(dragEndCallbacks, "end", currentDrag, FALSE)]

\* cancelDrag()
CancelDrag ==
    /\ CancelDragEffect("cancelDrag", NoPosition)
    /\ dragTrace' = NoDrag
    /\ UNCHANGED <<mirrorVars, viewVars, connVars, eventListeners, txVars, histVars, dragSubs>>

\* sendMoveChess(playerId, from, to): the payload of the MoveChess intent.
MoveChess(from, to) == [playerId |-> playerId, from |-> from, to |-> to]

\* drop(dragData) up to its `await`: the positions are put in API format and
\* sendMoveChess runs send() at once; what follows the await is DropSettled.
DropEffect(op, target) ==
    /\ nextId <= MaxDrops
    /\ Len(pendingDrops) < MaxPending
    /\ SendEffect([Quiet(op) EXCEPT !.arg = target], "MoveChess",
                  MoveChess(FromParam(currentDrag.source), ToParam(target)))
    /\ pendingDrops' = Append(pendingDrops,
                              [data |-> NoDrag, attached |-> TRUE, resolved |-> IsConnected])

\* The body of endDrag(target?), as the handler `op` runs it.
EndDragEffect(op, target) ==
    /\ dragTrace' = NoDrag
    /\ IF currentDrag = NoDrag
         THEN /\ out' = [Quiet(op) EXCEPT !.arg = target]
              /\ UNCHANGED <<currentDrag, pendingDrops, txVars>>
       ELSE IF target # NoPosition
         THEN /\ currentDrag' = [currentDrag EXCEPT !.target = target]
              /\ DropEffect(op, target)
         ELSE /\ CancelDragEffect(op, target)
              /\ UNCHANGED txVars
    /\ UNCHANGED <<mirrorVars, connVars, eventListeners, histVars, dragSubs>>

\* endDrag(target?)
EndDrag(target) ==
    /\ EndDragEffect("endDrag", target)
    /\ UNCHANGED viewVars

\* drop(dragData) after its `await`: the subscribers are told the outcome of
\* the send, then currentDrag is cleared, whichever session it holds by then.
DropSettled ==
    /\ pendingDrops # <<>>
    /\ LET drop == pendingDrops[1]
           data == DataOf(drop)
       IN out' = [Quiet("dropSettled") EXCEPT
                    !.result = IF drop.resolved THEN "resolved" ELSE "rejected",
                    !.notes = Notify(dragEndCallbacks, "end", data, drop.resolved)
                              \o Notify(dropCallbacks, "drop", data, drop.resolved)]
    /\ currentDrag' = NoDrag
    /\ pendingDrops' = Detached(Tail(pendingDrops))
    /\ UNCHANGED <<mirrorVars, viewVars, connVars, eventListeners, txVars, histVars, dragSubs, dragTrace>>

(***************************************************************************)
(* State mirror (gameState): the singleton `state`, updateState, and the   *)
(* Buy XP button of ActionButtonPanel.                                     *)
(***************************************************************************)
\* The ChessPiece objects: "piece" is the one callers of the drag manager hold
\* outside the mirror, the others are made when a server payload is parsed.
Objects == {"piece", "o1", "o2", "o3"}

\* The value of a ChessPiece, and the content of an object not in use.
ChessPiece(id, level) == [id |-> id, level |-> level]
NoPiece == ChessPiece("", 0)

\* XP
XP(current, required) == [current |-> current, required |-> required]

\* initialState: money 10, level 1, xp 0/2, empty bench and board.
initialState ==
    [money |-> 10, level |-> 1, xp |-> XP(0, 2), bench |-> <<>>, board |-> <<>>]

\* The objects something still refers to: the mirror `st`, the drag sessions,
\* and the callers of the drag manager.
ReferencedBy(st) ==
    {st.bench[i] : i \in 1..Len(st.bench)}
      \cup {st.board[i] : i \in 1..Len(st.board)}
      \cup {currentDrag.chessPiece}
      \cup {DataOf(pendingDrops[i]).chessPiece : i \in 1..Len(pendingDrops)}
      \cup {draggedPiece}
      \cup Pieces
Referenced == ReferencedBy(state)

\* Garbage collection: an object nothing refers to is gone.
Collected(h, live) == [o \in Objects |-> IF o \in live THEN h[o] ELSE NoPiece]

\* The objects in the order in which the allocator hands them out.
ObjectOrder == <<"o1", "o2", "o3", "piece">>

\* The first n objects nothing refers to.
RECURSIVE Fresh(_, _, _)
Fresh(used, n, k) ==
    IF n = 0 \/ k > Len(ObjectOrder) THEN <<>>
    ELSE IF ObjectOrder[k] \in used THEN Fresh(used, n, k + 1)
    ELSE <<ObjectOrder[k]>> \o Fresh(used, n - 1, k + 1)

\* The heap after the values are written into the objects refs.
Written(h, refs, values) ==
    [o \in Objects |->
        IF \E i \in 1..Len(refs) : refs[i] = o
          THEN values[CHOOSE i \in 1..Len(refs) : refs[i] = o]
          ELSE h[o]]

\* Mutant: the pieces of a payload are written into the objects the mirror
\* already holds, where it holds any.
ParsedPiecesReused(h, held, used, values) ==
    LET fresh == Fresh(used, Len(values), 1)
        refs == [i \in 1..Min(Len(values), Len(held) + Len(fresh)) |->
                    IF i <= Len(held) THEN held[i] ELSE fresh[i - Len(held)]]
    IN [refs |-> refs, heap |-> Written(h, refs, values)]

\* JSON.parse of a payload's piece array: one new object for each piece; the
\* objects the mirror held before (`held`) are left as they are.
ParsedPieces(h, held, used, values) ==
    LET refs == Fresh(used, Len(values), 1)
    IN [refs |-> refs, heap |-> Written(h, refs, values)]

\* What a server payload may carry for the fields of Partial<GameState>.
MoneyValues == {0, 6, 10}
LevelValues == {0, 1, 2}
XPValues == {XP(0, 2), XP(4, 6)}
PieceArrays == {<<>>, <<ChessPiece("b1", 1)>>, <<ChessPiece("b1", 2)>>}

\* Partial<GameState>: `has` names the fields the patch carries.
Patch(has, money, level, xp, bench, board) ==
    [has |-> has, money |-> money, level |-> level, xp |-> xp,
     bench |-> bench, board |-> board]

\* Patches of the economy fields, and patches that replace the bench.
EconomyPatches ==
    {Patch(has, IF "money" \in has THEN money ELSE 0,
           IF "level" \in has THEN level ELSE 0,
           IF "xp" \in has THEN xp ELSE XP(0, 0), <<>>, <<>>) :
        has \in SUBSET {"money", "level", "xp"},
        money \in MoneyValues, level \in LevelValues, xp \in XPValues}
BenchPatches ==
    {Patch({"bench"}, 0, 0, XP(0, 0), bench, <<>>) : bench \in PieceArrays}

\* Object.assign(state, newState), the piece arrays being `bench` and `board`.
Assign(old, patch, bench, board) ==
    [money |-> IF "money" \in patch.has THEN patch.money ELSE old.money,
     level |-> IF "level" \in patch.has THEN patch.level ELSE old.level,
     xp |-> IF "xp" \in patch.has THEN patch.xp ELSE old.xp,
     bench |-> IF "bench" \in patch.has THEN bench ELSE old.bench,
     board |-> IF "board" \in patch.has THEN board ELSE old.board]

\* eventEmitter.fire(event, data)
Event(name, money, level, xp) == [event |-> name, money |-> money, level |-> level, xp |-> xp]
XPUpdated(xp) == Event("state:xp:updated", 0, 0, xp)
LevelUpdated(level) == Event("state:level:updated", 0, level, XP(0, 0))
MoneyUpdated(money) == Event("state:money:updated", money, 0, XP(0, 0))

\* `newState.level &&`: the patch carries a level that is truthy.
LevelCarried(patch) == "level" \in patch.has /\ patch.level # 0

\* The notifications updateState fires, in its order: xp, level, money.
Fired(oldState, patch) ==
    (IF "xp" \in patch.has
         /\ (patch.xp.current # oldState.xp.current
               \/ patch.xp.required # oldState.xp.required)
       THEN <<XPUpdated(patch.xp)>> ELSE <<>>)
    \o (IF LevelCarried(patch) /\ patch.level # oldState.level
          THEN <<LevelUpdated(patch.level)>> ELSE <<>>)
    \o (IF "money" \in patch.has /\ patch.money # oldState.money
          THEN <<MoneyUpdated(patch.money)>> ELSE <<>>)

\* updateState(newState), newState being a payload the server sent: its piece
\* arrays are objects of their own, made when the message was parsed.
UpdateState(patch) ==
    LET bench == ParsedPieces(heap, state.bench, Referenced, patch.bench)
        used == Referenced \cup {bench.refs[i] : i \in 1..Len(bench.refs)}
        board == ParsedPieces(bench.heap, state.board, used, patch.board)
        newState == Assign(state, patch, bench.refs, board.refs)
    IN /\ Len(bench.refs) = Len(patch.bench)
       /\ Len(board.refs) = Len(patch.board)
       /\ state' = newState
       /\ heap' = Collected(board.heap, ReferencedBy(newState))
       /\ snapshots' = Collected(snapshots, ReferencedBy(newState))
       /\ out' = [Quiet("updateState") EXCEPT !.arg = patch, !.fired = Fired(state, patch)]
       /\ UNCHANGED <<connVars, eventListeners, txVars, histVars, dragAll, viewVars>>

\* ActionButtonPanel.onBuyXPClick (the panel that applies the purchase itself).
OnBuyXPClick ==
    LET xpCost == 4
        newMoney == state.money - xpCost
        newXP == XP(state.xp.current + 4, state.xp.required)
        newLevel == state.level + 1
    IN /\ state.level < MaxLevel
       /\ IF state.money >= xpCost
            THEN IF newXP.current >= newXP.required
                   THEN /\ state' = [state EXCEPT !.money = newMoney, !.level = newLevel,
                                                  !.xp = XP(0, newLevel * 2 + 2)]
                        /\ out' = [Quiet("onBuyXPClick") EXCEPT
                                     !.fired = <<XPUpdated(newXP), LevelUpdated(newLevel)>>]
                   ELSE /\ state' = [state EXCEPT !.money = newMoney, !.xp = newXP]
                        /\ out' = [Quiet("onBuyXPClick") EXCEPT !.fired = <<XPUpdated(newXP)>>]
            ELSE /\ state' = state
                 /\ out' = Quiet("onBuyXPClick")
       /\ UNCHANGED <<connVars, eventListeners, txVars, histVars, dragAll, heap, snapshots,
                      viewVars>>

(***************************************************************************)
(* BoardUI: the hex coordinate engine.                                     *)
(***************************************************************************)
\* BoardUI.boardRadius, the attribute's default; it is a whole number, so
\* Math.floor(boardRadius) is boardRadius.
boardRadius == 12

Abs(n) == IF n < 0 THEN -n ELSE n
Max3(a, b, c) == IF a >= b /\ a >= c THEN a ELSE IF b >= c THEN b ELSE c

\* Math.max(Math.abs(q), Math.abs(r), Math.abs(s)) <= this.boardRadius
InDisk(q, r, s) == Max3(Abs(q), Abs(r), Abs(s)) <= boardRadius

\* createHexGrid: the cells of the board, as cube coordinates <<q, r, s>>.
HexGrid ==
    {c \in {<<q, r, -q - r>> : q \in -boardRadius..boardRadius,
                               r \in -boardRadius..boardRadius} :
        InDisk(c[1], c[2], c[3])}

\* Mutant: gridToHex that returns the coordinates without the radius test.
GridToHexUnchecked(x, y) ==
    LET q == x - boardRadius
        r == y - (boardRadius \div 2)
    IN <<q, r, -q - r>>

\* gridToHex(x, y): the cell <<q, r, s>>, or <<>> for null.
GridToHex(x, y) ==
    LET q == x - boardRadius
        r == y - (boardRadius \div 2)
        s == -q - r
    IN IF InDisk(q, r, s) THEN <<q, r, s>> ELSE <<>>

\* Mutant: hexToGrid that turns with the board.
HexToGridTurned(q, r, s) ==
    <<q + boardRadius + boardRotation, r + (boardRadius \div 2)>>

\* Mutant: hexToGrid that shifts the row by the whole radius.
HexToGridFullShift(q, r, s) == <<q + boardRadius, r + boardRadius>>

\* hexToGrid(q, r, s): the grid position <<x, y>>; it never returns null.
HexToGrid(q, r, s) == <<q + boardRadius, r + (boardRadius \div 2)>>

\* The grid positions asked about: the bounding box of the images of the
\* board's cells, and Margin positions beyond it on every side.
GridXs == (-Margin)..(2 * boardRadius + Margin)
GridYs == ((boardRadius \div 2) - boardRadius - Margin)
            ..((boardRadius \div 2) + boardRadius + Margin)

\* A call of gridToHex(x, y).
GridToHexCall(x, y) ==
    /\ out' = [Quiet("gridToHex") EXCEPT !.arg = <<x, y>>, !.value = GridToHex(x, y)]
    /\ UNCHANGED <<mirrorVars, viewVars, connVars, eventListeners, txVars, histVars, dragAll>>

\* A call of hexToGrid(q, r, s), as the handlers of a cell's events make it.
HexToGridCall(q, r, s) ==
    /\ out' = [Quiet("hexToGrid") EXCEPT !.arg = <<q, r, s>>, !.value = HexToGrid(q, r, s)]
    /\ UNCHANGED <<mirrorVars, viewVars, connVars, eventListeners, txVars, histVars, dragAll>>

\* createHexBoard: the loops over q and r, in their order; the cell found
\* k-th gets index k - 1.
RowOf(q) ==
    SelectSeq([j \in 1..(2 * boardRadius + 1) |->
                   <<q, j - boardRadius - 1, -q - (j - boardRadius - 1)>>],
              LAMBDA c : InDisk(c[1], c[2], c[3]))

RECURSIVE RowsFrom(_)
RowsFrom(q) == IF q > boardRadius THEN <<>> ELSE RowOf(q) \o RowsFrom(q + 1)

CreatedHexGrid ==
    LET coords == RowsFrom(-boardRadius)
    IN [k \in 1..Len(coords) |-> [coord |-> coords[k], index |-> k - 1]]

\* rotateBoard is called with +0.1 and -0.1 radians: boardRotation is counted
\* in these steps.  World coordinates are in thousandths, and so are the
\* cosine and the sine of a whole number of steps.
CosTable == <<1000, 995, 980, 955, 921, 878, 825>>
SinTable == <<0, 100, 199, 296, 389, 479, 565>>
Cos(steps) == CosTable[Abs(steps) + 1]
Sin(steps) == IF steps < 0 THEN -SinTable[Abs(steps) + 1] ELSE SinTable[Abs(steps) + 1]

\* BoardUI.cellSize (1.2) times the 0.95 of hexToWorld, in thousandths.
CellStep == 1140

\* hexToWorld(q, r, s) under the rotation `rotation`: the x and z of the
\* position; y is 0.
HexToWorld(q, r, s, rotation) ==
    LET x == (CellStep * (1732 * q + 866 * r)) \div 1000
        z == (CellStep * 1500 * r) \div 1000
    IN <<(x * Cos(rotation) - z * Sin(rotation)) \div 1000,
         (x * Sin(rotation) + z * Cos(rotation)) \div 1000>>

\* The tags `hex-q:${q}`, `hex-r:${r}`, `hex-s:${s}` of an entity.
HexTags(q, r, s) ==
    [q |-> "hex-q:" \o ToString(q), r |-> "hex-r:" \o ToString(r),
     s |-> "hex-s:" \o ToString(s)]

\* parseInt(tag.substring(6)) of a tag that begins with `prefix`.
ParseTag(prefix, tag) ==
    CHOOSE n \in (-3 * boardRadius)..(3 * boardRadius) : prefix \o ToString(n) = tag

\* The positions hexToWorld gives to the cells of `grid`; the k-th entry of
\* the grid carries the index k - 1, the place of its cell in BoardUI.cells.
CellPositions(grid, rotation) ==
    [k \in 1..Len(grid) |->
        HexToWorld(grid[k].coord[1], grid[k].coord[2], grid[k].coord[3], rotation)]

\* The position hexToWorld gives to a piece with the tags `tags`.
PiecePosition(tags, rotation) ==
    HexToWorld(ParseTag("hex-q:", tags.q), ParseTag("hex-r:", tags.r),
               ParseTag("hex-s:", tags.s), rotation)

\* createHexBoard(), which initialize() runs once.
CreateHexBoard ==
    /\ hexGrid = <<>>
    /\ hexGrid' = CreatedHexGrid
    /\ cellPositions' = CellPositions(CreatedHexGrid, boardRotation)
    /\ out' = Quiet("createHexBoard")
    /\ UNCHANGED <<boardRotation, pieceTags, piecePositions, gestureVars, shopVars, sceneVars,
                   pointerDown>>
    /\ UNCHANGED <<mirrorVars, connVars, eventListeners, txVars, histVars, dragAll>>

\* The ids of the pieces the server places on the board.
BoardPieceIds == {"p1"}

\* updateBoard(board), for a board that holds the one piece `id` at position
\* [x, y]: the piece is created on its cell or moved to it
\* (createPieceEntity3D, movePieceToHexCell), or skipped with a warning when
\* gridToHex returns null; the entities of other pieces are removed.
UpdateBoard(id, x, y) ==
    LET hexCoord == GridToHex(x, y)
        kept == DOMAIN pieceTags \cap {id}
    IN /\ out' = [Quiet("updateBoard") EXCEPT !.arg = <<x, y>>, !.value = hexCoord,
                     !.result = IF hexCoord = <<>> THEN "skipped" ELSE "placed"]
       /\ IF hexCoord = <<>>
            THEN /\ pieceTags' = [p \in kept |-> pieceTags[p]]
                 /\ piecePositions' = [p \in kept |-> piecePositions[p]]
            ELSE /\ pieceTags' = [p \in {id} |-> HexTags(hexCoord[1], hexCoord[2],
                                                         hexCoord[3])]
                 /\ piecePositions' =
                      [p \in {id} |-> HexToWorld(hexCoord[1], hexCoord[2], hexCoord[3],
                                                 boardRotation)]
       /\ UNCHANGED <<boardRotation, hexGrid, cellPositions, gestureVars, shopVars, sceneVars,
                      pointerDown>>
       /\ UNCHANGED <<mirrorVars, connVars, eventListeners, txVars, histVars, dragAll>>

\* rotateBoard(angle), angle being a number of steps: the rotation is
\* accumulated and every cell and every piece is given the position
\* hexToWorld computes from its stored coordinates.
RotateBoard(angle) ==
    /\ Abs(boardRotation + angle) <= MaxTurns
    /\ boardRotation' = boardRotation + angle
    /\ cellPositions' = CellPositions(hexGrid, boardRotation')
    /\ piecePositions' = [p \in DOMAIN pieceTags |->
                             PiecePosition(pieceTags[p], boardRotation')]
    /\ out' = [Quiet("rotateBoard") EXCEPT !.arg = <<angle>>]
    /\ UNCHANGED <<hexGrid, pieceTags, gestureVars, shopVars, sceneVars, pointerDown>>
    /\ UNCHANGED <<mirrorVars, connVars, eventListeners, txVars, histVars, dragAll>>

(***************************************************************************)
(* BenchUI and BoardUI: the pointer handlers that drive the drag manager.  *)
(***************************************************************************)
\* ChessPiece.benchIndex and ChessPiece.position of the pieces the payloads
\* carry: piece b1 sits on bench card 0 and piece p1 on board position [7, 2];
\* -1 and <<>> are `undefined`.
BenchIndexOf(id) == IF id = "b1" THEN 0 ELSE -1
PositionOf(id) == IF id = "p1" THEN <<7, 2>> ELSE <<>>

\* The payload that puts b1 on the bench and p1 on the board.
PlacedPieces ==
    Patch({"bench", "board"}, 0, 0, XP(0, 0), <<ChessPiece("b1", 1)>>, <<ChessPiece("p1", 1)>>)

\* array.find(test): the first element of the array that passes, "null" if
\* none; passing is the set of elements the test accepts.
Find(array, passing) ==
    IF \E i \in 1..Len(array) : array[i] \in passing
      THEN array[CHOOSE i \in 1..Len(array) :
                   array[i] \in passing /\ \A j \in 1..(i - 1) : array[j] \notin passing]
      ELSE "null"

\* The bench cards and board cells the pointer is pressed and released on: the
\* cell under p1 and the cell at the centre of the board.
Cards == {0, 1}
Cells == {<<-5, -4, 9>>, <<0, 0, 0>>}

\* The mouse button goes down, and up: the two alternate.
Press == ~pointerDown /\ pointerDown' = TRUE
Lift == pointerDown /\ pointerDown' = FALSE

\* A handler that returns at once.
Returns(op, arg) ==
    /\ out' = [Quiet(op) EXCEPT !.arg = arg]
    /\ UNCHANGED <<mirrorVars, uiVars, connVars, eventListeners, txVars, histVars, dragAll>>

\* BenchUI.onCardMouseDown(index)
OnCardMouseDown(index) ==
    LET OnCard == {ref \in DOMAIN heap : BenchIndexOf(heap[ref].id) = index}
        chessPiece == Find(state.bench, OnCard)
    IN /\ Press
       /\ IF chessPiece = "null"
         THEN Returns("onCardMouseDown", <<index>>)
         ELSE /\ benchDragging' = TRUE
              /\ draggedPiece' = chessPiece
              /\ StartDragEffect([Quiet("onCardMouseDown") EXCEPT !.arg = <<index>>],
                                 chessPiece, Bench(index))
              /\ UNCHANGED <<sellZoneHighlighted, boardDragging, shopVars, rotationVars,
                             sceneVars>>

\* sendSellChess(playerId, unitId): the payload of the SellChess intent.
SellChess(unitId) == [playerId |-> playerId, unitId |-> unitId]

\* BenchUI.resetDragState()
ResetBenchDragState ==
    /\ benchDragging' = FALSE
    /\ draggedPiece' = "null"
    /\ sellZoneHighlighted' = FALSE

\* BenchUI.onCardMouseUp(index): the pointer is released over a bench card.
OnCardMouseUp(index) ==
    /\ Lift
    /\ IF ~benchDragging
      THEN Returns("onCardMouseUp", NoPosition)
      ELSE /\ IF sellZoneHighlighted /\ draggedPiece # "null"
                THEN /\ nextId <= MaxSends
                     /\ SendEffect([Quiet("onCardMouseUp") EXCEPT !.arg = NoPosition],
                                   "SellChess", SellChess(heap[draggedPiece].id))
                     /\ UNCHANGED <<mirrorVars, connVars, eventListeners, histVars, dragAll>>
                ELSE EndDragEffect("onCardMouseUp", NoPosition)
           /\ ResetBenchDragState
           /\ UNCHANGED <<boardDragging, shopVars, rotationVars, sceneVars>>

\* BenchUI.onSellZoneEnter / onSellZoneLeave
OnSellZoneEnter ==
    /\ sellZoneHighlighted' = (benchDragging \/ sellZoneHighlighted)
    /\ out' = Quiet("onSellZoneEnter")
    /\ UNCHANGED <<benchDragging, draggedPiece, boardDragging, shopVars, rotationVars,
                   sceneVars, pointerDown>>
    /\ UNCHANGED <<mirrorVars, connVars, eventListeners, txVars, histVars, dragAll>>

OnSellZoneLeave ==
    /\ sellZoneHighlighted' = FALSE
    /\ out' = Quiet("onSellZoneLeave")
    /\ UNCHANGED <<benchDragging, draggedPiece, boardDragging, shopVars, rotationVars,
                   sceneVars, pointerDown>>
    /\ UNCHANGED <<mirrorVars, connVars, eventListeners, txVars, histVars, dragAll>>

\* BoardUI.onCellMouseDown(q, r, s)
OnCellMouseDown(q, r, s) ==
    LET gridPos == HexToGrid(q, r, s)
        At == {ref \in DOMAIN heap : PositionOf(heap[ref].id) = gridPos}
        chessPiece == Find(state.board, At)
    IN /\ Press
       /\ IF chessPiece = "null"
         THEN Returns("onCellMouseDown", <<q, r, s>>)
         ELSE /\ boardDragging' = TRUE
              /\ StartDragEffect([Quiet("onCellMouseDown") EXCEPT !.arg = <<q, r, s>>],
                                 chessPiece, Board(gridPos[1], gridPos[2]))
              /\ UNCHANGED <<benchDragging, draggedPiece, sellZoneHighlighted, shopVars,
                             rotationVars, sceneVars>>

\* BoardUI.onCellMouseUp(q, r, s): the pointer is released over a board cell.
OnCellMouseUp(q, r, s) ==
    LET gridPos == HexToGrid(q, r, s)
    IN /\ Lift
       /\ IF ~boardDragging
         THEN Returns("onCellMouseUp", Board(gridPos[1], gridPos[2]))
         ELSE /\ EndDragEffect("onCellMouseUp", Board(gridPos[1], gridPos[2]))
              /\ boardDragging' = FALSE
              /\ UNCHANGED <<benchDragging, draggedPiece, sellZoneHighlighted, shopVars,
                             rotationVars, sceneVars>>

\* The pointer is released where no card and no cell is: neither component has
\* a handler for it.
MouseUpElsewhere == Lift /\ Returns("mouseup", NoPosition)

(***************************************************************************)
(* ShopUI: the shop cards, the refresh button and RefreshShopResult.       *)
(***************************************************************************)
\* ShopItem, by the name of its chess; the shops the server may offer.
Shops == {<<"Archer", "Tank">>, <<"Mage", "Tank">>}
ShopCards == 0..1

\* The callback ShopUI registers for RefreshShopResult.
ShopCallback == "onRefreshShopResult"

\* The payloads of RefreshShopResult: for this player or another one, a
\* success with the new shop and money, or a failure without them.
RefreshResults ==
    {[playerId |-> p, success |-> TRUE, shop |-> shop, money |-> 8] :
        p \in {playerId, "other"}, shop \in Shops}
    \cup {[playerId |-> p, success |-> FALSE, shop |-> <<>>, money |-> 0] :
        p \in {playerId, "other"}}

\* eventEmitter / app.fire('state:shop:updated', shop)
ShopUpdated(shop) == [event |-> "state:shop:updated", shop |-> shop]

\* ShopUI.initialize(): the cards show state.shop and the callback is
\* registered with the connection manager.
ShopInitialize ==
    /\ IndexOf(Get(eventListeners, "RefreshShopResult"), ShopCallback) = 0
    /\ eventListeners' = OnEffect(eventListeners, "RefreshShopResult", ShopCallback)
    /\ shownShop' = stateShop
    /\ out' = Quiet("initialize")
    /\ UNCHANGED <<stateShop, refreshEnabled, gestureVars, rotationVars, sceneVars,
                   pointerDown>>
    /\ UNCHANGED <<mirrorVars, connVars, txVars, histVars, dragAll>>

\* gameState.updateShop(shop): state.shop = shop
UpdateShop(shop) ==
    /\ stateShop' = shop
    /\ out' = [Quiet("updateShop") EXCEPT !.arg = shop]
    /\ UNCHANGED <<shownShop, refreshEnabled, gestureVars, rotationVars, sceneVars,
                   pointerDown>>
    /\ UNCHANGED <<mirrorVars, connVars, eventListeners, txVars, histVars, dragAll>>

\* sendBuyChess(playerId, chessName): the payload of the BuyChess intent.
BuyChess(chessName) == [playerId |-> playerId, chessName |-> chessName]

\* ShopUI.onCardClick(index): state.shop[index] is bought, if there is one.
OnCardClick(index) ==
    /\ IF index + 1 \in DOMAIN stateShop
         THEN /\ nextId <= MaxSends
              /\ SendEffect([Quiet("onCardClick") EXCEPT !.arg = <<index>>],
                            "BuyChess", BuyChess(stateShop[index + 1]))
         ELSE /\ out' = [Quiet("onCardClick") EXCEPT !.arg = <<index>>]
              /\ UNCHANGED txVars
    /\ UNCHANGED <<mirrorVars, viewVars, connVars, eventListeners, histVars, dragAll>>

\* ShopUI.onRefreshClick(): the button is disabled and RefreshShop is sent;
\* the catch of a rejected send, which runs as soon as the handler has
\* returned, enables the button again.
OnRefreshClick ==
    /\ refreshEnabled
    /\ nextId <= MaxSends
    /\ SendEffect(Quiet("onRefreshClick"), "RefreshShop", [playerId |-> playerId])
    /\ refreshEnabled' = ~IsConnected
    /\ UNCHANGED <<stateShop, shownShop, gestureVars, rotationVars, sceneVars, pointerDown>>
    /\ UNCHANGED <<mirrorVars, connVars, eventListeners, histVars, dragAll>>

\* refreshButton.element.enabled after onRefreshShopResult(payload) has run:
\* a success fires state:shop:updated, whose listener onShopUpdated enables
\* the button; a failure only logs.
RefreshEnabledAfter(was, payload) ==
    IF payload.playerId = playerId /\ payload.success THEN TRUE ELSE was

\* What the cards show after onRefreshShopResult(payload) has run.
ShownAfter(shown, payload) ==
    IF payload.playerId = playerId /\ payload.success THEN payload.shop ELSE shown

\* socket.onmessage of socket object s for a RefreshShopResult frame, with
\* the callback of ShopUI among the subscribers: onRefreshShopResult(payload)
\* updates the cards and the money text and fires the two events; it assigns
\* nothing to `state`.
ShopMessage(s, payload) ==
    /\ readyState[s] = "OPEN"
    /\ MicrotasksDone
    /\ LET frame == [kind |-> "envelope", type |-> "RefreshShopResult", payload |-> payload]
           d == Dispatch(eventListeners, frame)
           called == \E i \in 1..Len(d.invoked) : d.invoked[i].cb = ShopCallback
           handled == called /\ payload.playerId = playerId
       IN /\ eventListeners' = d.listeners
          /\ shownShop' = IF called THEN ShownAfter(shownShop, payload) ELSE shownShop
          /\ refreshEnabled' = IF called THEN RefreshEnabledAfter(refreshEnabled, payload)
                               ELSE refreshEnabled
          /\ out' = [Quiet("message") EXCEPT
                       !.arg = frame, !.invoked = d.invoked,
                       !.logged = (d.logged \/ (handled /\ ~payload.success)),
                       !.fired = IF handled /\ payload.success
                                   THEN <<MoneyUpdated(payload.money),
                                          ShopUpdated(payload.shop)>>
                                   ELSE <<>>]
    /\ UNCHANGED <<stateShop, gestureVars, rotationVars, sceneVars, pointerDown>>
    /\ UNCHANGED <<mirrorVars, connVars, txVars, histVars, dragAll>>

(***************************************************************************)
(* SceneManager                                                            *)
(***************************************************************************)
\* enum SceneType, and the root entities the application registers.
SceneTypes == {"lobby", "game"}
Entities == {"lobbyRoot", "gameRoot"}

\* registerScene(type, entity)
RegisterScene(type, entity) ==
    /\ sceneEntities' = [t \in DOMAIN sceneEntities \cup {type} |->
                            IF t = type THEN entity ELSE sceneEntities[t]]
    /\ enabled' = [enabled EXCEPT ![entity] = FALSE]
    /\ out' = [Quiet("registerScene") EXCEPT !.arg = <<type, entity>>]
    /\ UNCHANGED <<currentScene, gestureVars, shopVars, rotationVars, pointerDown>>
    /\ UNCHANGED <<mirrorVars, connVars, eventListeners, txVars, histVars, dragAll>>

\* The entity flags after switchToScene has hidden the current scene.
Hidden ==
    IF currentScene # "null" /\ currentScene \in DOMAIN sceneEntities
      THEN [enabled EXCEPT ![sceneEntities[currentScene]] = FALSE]
      ELSE enabled

\* switchToScene(type)
SwitchToScene(type) ==
    /\ IF currentScene = type
         THEN /\ out' = [Quiet("switchToScene") EXCEPT !.arg = <<type>>]
              /\ UNCHANGED <<currentScene, enabled>>
       ELSE IF type \notin DOMAIN sceneEntities
         THEN /\ enabled' = Hidden
              /\ out' = [Quiet("switchToScene") EXCEPT !.arg = <<type>>, !.logged = TRUE,
                                                     !.result = "unregistered"]
              /\ UNCHANGED currentScene
         ELSE /\ enabled' = [Hidden EXCEPT ![sceneEntities[type]] = TRUE]
              /\ currentScene' = type
              /\ out' = [Quiet("switchToScene") EXCEPT !.arg = <<type>>]
    /\ UNCHANGED <<sceneEntities, gestureVars, shopVars, rotationVars, pointerDown>>
    /\ UNCHANGED <<mirrorVars, connVars, eventListeners, txVars, histVars, dragAll>>

(***************************************************************************)
(* Specifications                                                          *)
(***************************************************************************)
Init ==
    /\ socket = Null
    /\ readyState = [s \in SocketIds |-> "NONE"]
    /\ reconnectAttempts = 0
    /\ timers = 0
    /\ autoReconnect \in BOOLEAN
    /\ eventListeners = <<>>
    /\ transmitted = {}
    /\ rejected = {}
    /\ nextId = 1
    /\ out = Quiet("new")
    /\ closeRun = -1
    /\ scheduledSinceOpen = 0
    /\ disconnected = FALSE
    /\ reopened = FALSE
    /\ currentDrag = NoDrag
    /\ pendingDrops = <<>>
    /\ dragStartCallbacks = <<>>
    /\ dragMoveCallbacks = <<>>
    /\ dragEndCallbacks = <<>>
    /\ dropCallbacks = <<>>
    /\ dragTrace = NoDrag
    /\ state = initialState
    /\ heap = [o \in Objects |-> IF o \in Pieces THEN ChessPiece("b1", 1) ELSE NoPiece]
    /\ snapshots = [o \in Objects |-> NoPiece]
    /\ benchDragging = FALSE
    /\ draggedPiece = "null"
    /\ sellZoneHighlighted = FALSE
    /\ boardDragging = FALSE
    /\ pointerDown = FALSE
    /\ stateShop = <<>>
    /\ shownShop = <<>>
    /\ refreshEnabled = TRUE
    /\ boardRotation = 0
    /\ hexGrid = <<>>
    /\ cellPositions = <<>>
    /\ pieceTags = <<>>
    /\ piecePositions = <<>>
    /\ currentScene = "null"
    /\ sceneEntities = <<>>
    /\ enabled = [e \in Entities |-> TRUE]

\* The connection manager and its callers.
NextConn ==
    \/ Connect
    \/ ReconnectTimer
    \/ \E s \in SocketIds : SocketOpen(s)
    \/ \E s \in SocketIds : SocketClose(s)
    \/ Disconnect
    \/ \E t \in SendTypes : Send(t, [playerId |-> playerId])

SpecConn == Init /\ [][NextConn]_vars

\* The registry, its callers and the messages of the server.
NextReg ==
    \/ Connect
    \/ \E s \in SocketIds : SocketOpen(s)
    \/ \E t \in Types, cb \in Callbacks : On(t, cb)
    \/ \E t \in Types, cb \in Callbacks : Off(t, cb)
    \/ \E s \in SocketIds, f \in Frames : OnMessage(s, f)

SpecReg == Init /\ [][NextReg]_vars

\* The drag manager, its callers and the channel it sends on, which the
\* application connects once.
NextDrag ==
    \/ (socket = Null /\ Connect)
    \/ \E s \in SocketIds : SocketOpen(s)
    \/ \E sub \in Subscribers : OnDragStart(sub)
    \/ \E sub \in Subscribers : OnDragMove(sub)
    \/ \E sub \in Subscribers : OnDragEnd(sub)
    \/ \E sub \in Subscribers : OnDrop(sub)
    \/ \E piece \in Pieces, source \in Sources : StartDrag(piece, source)
    \/ \E pointer \in Pointers : MoveDrag(pointer)
    \/ \E target \in Targets \cup {NoPosition} : EndDrag(target)
    \/ CancelDrag
    \/ DropSettled
    \/ \E position \in Queried : ValidityQuery(position)

\* The drag manager sends through the singleton webSocketManager, which is
\* constructed with the default autoReconnect = true.
InitDrag == Init /\ autoReconnect

SpecDrag == InitDrag /\ [][NextDrag]_vars

\* The state mirror, the payloads applied to it and the Buy XP button, which
\* in one panel applies the purchase itself and in the other sends BuyXP.
NextMirror ==
    \/ (socket = Null /\ Connect)
    \/ \E s \in SocketIds : SocketOpen(s)
    \/ \E patch \in EconomyPatches : UpdateState(patch)
    \/ OnBuyXPClick
    \/ Send("BuyXP", [playerId |-> playerId])

SpecMirror == InitDrag /\ [][NextMirror]_vars

\* The reply of the server to a MoveChess it refuses.
InvalidMove == "{success:false,reason:invalid move}"
MoveFailed == [kind |-> "envelope", type |-> "MoveChessResult", payload |-> InvalidMove]

\* A drag of a piece of the mirror (BenchUI takes it from state.bench) and the
\* payloads that replace the bench meanwhile.
NextPieces ==
    \/ (socket = Null /\ Connect)
    \/ \E s \in SocketIds : SocketOpen(s)
    \/ \E patch \in BenchPatches : UpdateState(patch)
    \/ \E sub \in Subscribers : OnDragMove(sub)
    \/ \E sub \in Subscribers : OnDragEnd(sub)
    \/ \E sub \in Subscribers : OnDrop(sub)
    \/ \E i \in 1..Len(state.bench) : StartDrag(state.bench[i], Bench(0))
    \/ \E pointer \in Pointers : MoveDrag(pointer)
    \/ \E target \in {Board(3, 1), NoPosition} : EndDrag(target)
    \/ DropSettled

SpecPieces == InitDrag /\ [][NextPieces]_vars

\* A drag of a piece of the mirror that the server refuses: the subscribers
\* of MoveChessResult and the message itself.
NextRefusal ==
    \/ (socket = Null /\ Connect)
    \/ \E s \in SocketIds : SocketOpen(s)
    \/ UpdateState(Patch({"bench"}, 0, 0, XP(0, 0), <<ChessPiece("b1", 1)>>, <<>>))
    \/ \E cb \in {"cbA", "cbThrow"} : On("MoveChessResult", cb)
    \/ \E s \in SocketIds : OnMessage(s, MoveFailed)
    \/ \E sub \in Subscribers : OnDragEnd(sub)
    \/ \E i \in 1..Len(state.bench) : StartDrag(state.bench[i], Bench(0))
    \/ \E pointer \in Pointers : MoveDrag(pointer)
    \/ EndDrag(Board(3, 1))
    \/ DropSettled

SpecRefusal == InitDrag /\ [][NextRefusal]_vars

\* The pointer gestures on the bench and the board, over a mirror that holds
\* one bench piece and one board piece.
NextGesture ==
    \/ (socket = Null /\ Connect)
    \/ \E s \in SocketIds : SocketOpen(s)
    \/ UpdateState(PlacedPieces)
    \/ \E index \in Cards : OnCardMouseDown(index)
    \/ \E index \in Cards : OnCardMouseUp(index)
    \/ OnSellZoneEnter
    \/ OnSellZoneLeave
    \/ \E c \in Cells : OnCellMouseDown(c[1], c[2], c[3])
    \/ \E c \in Cells : OnCellMouseUp(c[1], c[2], c[3])
    \/ MouseUpElsewhere
    \/ DropSettled

SpecGesture == InitDrag /\ [][NextGesture]_vars

\* The continuation of an `await` is a microtask: it runs once the handler
\* that suspended it has returned.
SpecGestureFair == SpecGesture /\ WF_vars(DropSettled)

\* The shop: the state mirror's shop, the cards, the refresh button and the
\* replies of the server.
NextShop ==
    \/ (socket = Null /\ Connect)
    \/ \E s \in SocketIds : SocketOpen(s)
    \/ ShopInitialize
    \/ \E shop \in Shops : UpdateShop(shop)
    \/ \E index \in ShopCards : OnCardClick(index)
    \/ OnRefreshClick
    \/ \E s \in SocketIds, payload \in RefreshResults : ShopMessage(s, payload)

SpecShop == InitDrag /\ [][NextShop]_vars

\* The scene manager and its callers.
NextScene ==
    \/ \E type \in SceneTypes, entity \in Entities : RegisterScene(type, entity)
    \/ \E type \in SceneTypes : SwitchToScene(type)

SpecScene == InitDrag /\ [][NextScene]_vars

\* The coordinate engine: the conversions.
NextHex ==
    \/ \E x \in GridXs, y \in GridYs : GridToHexCall(x, y)
    \/ \E c \in HexGrid : HexToGridCall(c[1], c[2], c[3])

SpecHex == InitDrag /\ [][NextHex]_vars

\* The board: its cells, the pieces the server places on the board of
\* boardWidth by boardHeight positions, and the rotation keys.
NextBoard ==
    \/ CreateHexBoard
    \/ \E id \in BoardPieceIds, x \in 0..(boardWidth - 1), y \in 0..(boardHeight - 1) :
          UpdateBoard(id, x, y)
    \/ \E angle \in {-1, 1} : RotateBoard(angle)

SpecBoard == InitDrag /\ [][NextBoard]_vars

(***************************************************************************)
(* Connection manager: claims                                                  *)
(***************************************************************************)
\* A reconnect attempt is scheduled or in progress.
Connecting == timers > 0 \/ \E s \in SocketIds : readyState[s] = "CONNECTING"

\* Terminal failure: the budget is spent and nothing is scheduled or in progress.
Failed ==
    /\ socket = Null
    /\ Live = {}
    /\ timers = 0
    /\ reconnectAttempts = maxReconnectAttempts

\* C1 (as stated): with auto-reconnect on, after N consecutive unexpected closes
\* since an open, N < maxReconnectAttempts leaves a reconnect scheduled or in
\* progress, and at N = maxReconnectAttempts the manager is terminally failed and
\* that close scheduled nothing.
C1_FailedAtMaxCloses ==
    (autoReconnect /\ closeRun >= 1) =>
        /\ closeRun < maxReconnectAttempts => Connecting
        /\ closeRun = maxReconnectAttempts =>
              (Failed /\ (out.op = "close" => ~out.scheduled))

\* C1 (amended): the N-th close schedules a reconnect for every N up to and
\* including maxReconnectAttempts; it is the close after those, number
\* maxReconnectAttempts + 1, that schedules nothing and leaves the manager
\* terminally failed.
C1_FailedAfterMaxRetries ==
    (autoReconnect /\ closeRun >= 1) =>
        /\ closeRun <= maxReconnectAttempts + 1
        /\ closeRun <= maxReconnectAttempts =>
              (Connecting /\ reconnectAttempts = closeRun
                 /\ (out.op = "close" => out.scheduled))
        /\ closeRun = maxReconnectAttempts + 1 =>
              (Failed /\ (out.op = "close" => ~out.scheduled))

C1_Witness ==
    autoReconnect /\ closeRun = maxReconnectAttempts + 1 /\ out.op = "close"

\* C2 (as stated): after disconnect(), and until the caller calls connect()
\* again, the manager makes no connection attempt of its own.
C2_DisconnectSuppressesReconnect ==
    disconnected => out.op # "reconnect"

\* C3: a send() made while the channel is not open is rejected at once and
\* hands nothing to the socket, and no rejected call is ever transmitted, then
\* or later; a send() made while it is open transmits its one envelope.
C3_RejectedSendNeverTransmitted ==
    /\ [](transmitted \cap rejected = {})
    /\ [][(nextId' # nextId /\ ~IsConnected) =>
            /\ out'.sent = <<>>
            /\ out'.result = "rejected"
            /\ rejected' = rejected \cup {nextId}
            /\ transmitted' = transmitted]_vars
    /\ [][(nextId' # nextId /\ IsConnected) =>
            /\ Len(out'.sent) = 1 /\ out'.sent[1].id = nextId
            /\ out'.result = "resolved"
            /\ rejected' = rejected
            /\ transmitted' = transmitted \cup {nextId}]_vars
    /\ [][nextId' = nextId => (out'.sent = <<>> /\ UNCHANGED txVars)]_vars

C3_Witness ==
    /\ out.op = "send" /\ out.result = "resolved"
    /\ \E r \in rejected : \E t \in transmitted : r < t

\* C10: the retry counter stays within 0..maxReconnectAttempts, at most
\* maxReconnectAttempts reconnects are scheduled between two opens, a close
\* schedules one only while the counter is below the maximum, the counter leaves
\* the maximum only by an open, and a terminally failed manager stays so until
\* the caller calls connect().
C10_ReconnectBounded ==
    /\ [](reconnectAttempts \in 0..maxReconnectAttempts
           /\ scheduledSinceOpen <= maxReconnectAttempts)
    /\ [][timers' > timers =>
            (reconnectAttempts < maxReconnectAttempts
               /\ reconnectAttempts' = reconnectAttempts + 1)]_vars
    /\ [][(reconnectAttempts = maxReconnectAttempts
             /\ reconnectAttempts' # maxReconnectAttempts) => out'.op = "open"]_vars
    /\ [][(Failed /\ out'.op # "connect") => Failed']_vars

C10_Witness ==
    Failed /\ autoReconnect /\ scheduledSinceOpen = maxReconnectAttempts

\* C11: every open, of the socket made by connect() or by the reconnect timer,
\* sets the retry counter to zero, and the consecutive unexpected closes that
\* follow an open are retried again up to maxReconnectAttempts times, whatever
\* part of the budget was spent before that open.
C11_OpenResetsRetryCounter ==
    /\ [][out'.op = "open" => reconnectAttempts' = 0]_vars
    /\ [][(out'.op = "close" /\ autoReconnect
              /\ closeRun' \in 1..maxReconnectAttempts) =>
            (out'.scheduled /\ reconnectAttempts' = closeRun')]_vars

\* The last retry of a full budget, granted after an open that followed retries.
C11_Witness ==
    /\ reopened /\ autoReconnect
    /\ out.op = "close" /\ out.scheduled
    /\ closeRun = maxReconnectAttempts

(***************************************************************************)
(* Subscription registry and dispatch: claims                              *)
(***************************************************************************)
Count(seq, x) == Cardinality({i \in 1..Len(seq) : seq[i] = x})

\* The invocations that deliver payload p of a message of type t to the
\* callbacks cbs, one each, in their order.
Deliveries(cbs, t, p) ==
    [i \in 1..Len(cbs) |-> [cb |-> cbs[i], type |-> t, payload |-> p]]

\* The step is the receipt of a well-formed envelope.
EnvelopeStep == out'.op = "message" /\ out'.arg.kind = "envelope"

\* The step is the receipt of a malformed envelope.
MalformedStep == out'.op = "message" /\ out'.arg.kind # "envelope"

\* on() appends one registration, whatever is registered already.
OnAppends ==
    out'.op = "on" =>
        LET t == out'.arg[1]
            cb == out'.arg[2]
        IN /\ Get(eventListeners', t) = Append(Get(eventListeners, t), cb)
           /\ \A u \in Types \ {t} : Get(eventListeners', u) = Get(eventListeners, u)

\* off() removes one registration of the callback when there is one, and
\* nothing otherwise.
OffRemovesOne ==
    out'.op = "off" =>
        LET t == out'.arg[1]
            cb == out'.arg[2]
            had == Count(Get(eventListeners, t), cb) > 0
        IN \A u \in Types, c \in Callbacks :
             Count(Get(eventListeners', u), c) =
               Count(Get(eventListeners, u), c)
                 - (IF u = t /\ c = cb /\ had THEN 1 ELSE 0)

\* on() and off() edit the registry one registration at a time.
RegistryEdits == [][OnAppends /\ OffRemovesOne]_vars

\* C7 (as stated): no de-duplication: a callback registered k times for a type
\* is invoked k times for each message of the type, and each off() removes
\* exactly one registration, or nothing when there is none.
C7_NoDeduplication ==
    /\ [][OnAppends]_vars
    /\ [][OffRemovesOne]_vars
    /\ [][EnvelopeStep =>
            \A cb \in Callbacks :
               Cardinality({i \in 1..Len(out'.invoked) : out'.invoked[i].cb = cb})
                 = Count(Get(eventListeners, out'.arg.type), cb)]_vars

\* C8 (as stated): a well-formed envelope is delivered to every callback
\* registered for its type, with its payload, in the order of registration,
\* and to no callback of another type.
C8_DispatchInRegistrationOrder ==
    /\ [][OnAppends]_vars
    /\ [][EnvelopeStep =>
            out'.invoked = Deliveries(Get(eventListeners, out'.arg.type),
                                      out'.arg.type, out'.arg.payload)]_vars

\* C9 (as stated): a malformed envelope, unparseable or without `type`, is
\* dropped with a logged error, reaches no subscriber, and changes neither
\* the connection nor the registry.
C9_MalformedDroppedAndLogged ==
    [][MalformedStep =>
        (out'.logged /\ out'.invoked = <<>> /\ UNCHANGED <<connVars, eventListeners>>)]_vars

\* The subscribers of a type all return normally and leave the registry alone.
WellBehaved(t) ==
    \A i \in 1..Len(Get(eventListeners, t)) : Behaviour(eventListeners[t][i]) = "return"

\* Dispatch among well-behaved subscribers: each registration is served once,
\* in order, and the registry is left as it was.
WellBehavedDispatch ==
    [][(EnvelopeStep /\ WellBehaved(out'.arg.type)) =>
        /\ out'.invoked = Deliveries(Get(eventListeners, out'.arg.type),
                                     out'.arg.type, out'.arg.payload)
        /\ ~out'.logged
        /\ UNCHANGED <<connVars, eventListeners>>]_vars

\* A malformed envelope reaches no subscriber and changes no state; the error
\* is logged exactly when parsing or destructuring threw.
MalformedDropped ==
    [][MalformedStep =>
        /\ out'.logged = (out'.arg.kind \in {"garbage", "null"})
        /\ out'.invoked = <<>>
        /\ UNCHANGED <<connVars, eventListeners>>]_vars

(***************************************************************************)
(* Drag manager: claims                                                    *)
(***************************************************************************)
\* The manager is idle: no session, and no drop() still to settle.
Idle == currentDrag = NoDrag /\ pendingDrops = <<>>

\* The step is a call endDrag(target) with a target.
EndDragWithTarget == out'.op = "endDrag" /\ out'.arg # NoPosition

\* The step is a call endDrag() without a target.
EndDragNoTarget == out'.op = "endDrag" /\ out'.arg = NoPosition

\* The move request the protocol prescribes for a source and a target.
MoveRequest(source, target) ==
    [playerId |-> playerId,
     from |-> IF source.type = "bench"
                THEN [str |-> "bench-" \o ToString(source.index), arr |-> <<>>]
                ELSE [str |-> "", arr |-> <<source.x, source.y>>],
     to |-> IF target.type = "bench"
              THEN [str |-> "bench", arr |-> <<>>]
              ELSE [str |-> "", arr |-> <<target.x, target.y>>]]

\* C4: with the channel open, endDrag(target) on the session that startDrag
\* made from idle (nothing of an earlier drop still to settle) transmits
\* exactly one message, the MoveChess intent whose `from` is "bench-<index>"
\* or [x, y] and whose `to` is "bench" or [x, y]; startDrag, moveDrag and the
\* settling of the drop transmit nothing.
C4_OneMoveChessPerDrag ==
    /\ [][(EndDragWithTarget /\ currentDrag # NoDrag /\ pendingDrops = <<>> /\ IsConnected) =>
            /\ Len(out'.sent) = 1
            /\ out'.sent[1].type = "MoveChess"
            /\ out'.sent[1].payload = MoveRequest(currentDrag.source, out'.arg)
            /\ transmitted' = transmitted \cup {out'.sent[1].id}]_vars
    /\ [][out'.op \in {"startDrag", "moveDrag", "dropSettled"} =>
            (out'.sent = <<>> /\ UNCHANGED txVars)]_vars

\* startDrag(piece, Bench(0)) then endDrag(Board(3, 1)): from "bench-0" to [3, 1].
C4_Witness ==
    /\ out.op = "endDrag"
    /\ dragTrace = NoDrag
    /\ Len(out.sent) = 1
    /\ out.sent[1].type = "MoveChess"
    /\ out.sent[1].payload.from.str = "bench-0"
    /\ out.sent[1].payload.to.arr = <<3, 1>>
    /\ currentDrag.source = Bench(0)

\* C5 (as stated): startDrag, then moveDrag calls only, then endDrag() with no
\* target: nothing is sent, every end-subscriber is notified once with
\* success = false, and no session is left.
C5_CancelNotifiesEndSubscribers ==
    [][(EndDragNoTarget /\ dragTrace # NoDrag) =>
        /\ out'.sent = <<>> /\ UNCHANGED txVars
        /\ out'.notes = Notify(dragEndCallbacks, "end", dragTrace, FALSE)
        /\ currentDrag' = NoDrag]_vars

\* The notes begin with the notifications `prefix`.
BeginsWith(notes, prefix) ==
    /\ Len(notes) >= Len(prefix)
    /\ \A i \in 1..Len(prefix) : notes[i] = prefix[i]

\* C6 (as stated): startDrag while a session is live either is rejected with
\* a signal and leaves that session as it is, or first cancels it with an
\* end-notification (success = false); it never replaces it silently.
C6_SecondStartDragRejectedOrCancels ==
    [][(out'.op = "startDrag" /\ currentDrag # NoDrag) =>
        \/ (out'.result = "rejected" /\ currentDrag' = currentDrag)
        \/ BeginsWith(out'.notes, Notify(dragEndCallbacks, "end", currentDrag, FALSE))]_vars

\* The step is a cancellation: cancelDrag(), or endDrag() without a target.
CancelStep == out'.op = "cancelDrag" \/ EndDragNoTarget

\* The step is the rejected send of a finalized session being reported.
FailureStep == out'.op = "dropSettled" /\ out'.result = "rejected"

\* The notifications of a failed finalization: every end-subscriber, then
\* every drop-subscriber, with success = false and data that carries a target.
FailureNotes(notes) ==
    /\ Len(notes) = Len(dragEndCallbacks) + Len(dropCallbacks)
    /\ \E data \in {notes[i].data : i \in 1..Len(notes)} \cup {NoDrag} :
          /\ notes = Notify(dragEndCallbacks, "end", data, FALSE)
                       \o Notify(dropCallbacks, "drop", data, FALSE)
          /\ (notes # <<>> => data.target # NoPosition)

\* The notifications of a cancellation: end-subscribers only, success = false,
\* data without a target.
CancelNotes(notes) ==
    \A i \in 1..Len(notes) :
        /\ notes[i].kind = "end"
        /\ ~notes[i].success
        /\ notes[i].data.target = NoPosition

\* endDrag(target) with the channel not open transmits nothing, and the
\* rejection is reported to the end- and drop-subscribers with the target.
FailureReported ==
    /\ [][(EndDragWithTarget /\ currentDrag # NoDrag /\ ~IsConnected) =>
            /\ out'.sent = <<>> /\ transmitted' = transmitted
            /\ out'.result = "rejected"
            /\ out'.notes = <<>>]_vars
    /\ [][FailureStep => FailureNotes(out'.notes)]_vars

\* C12 (as stated): endDrag(target) with the channel not open transmits no
\* MoveChess; the end-subscribers are notified of that session exactly once,
\* with success = false and data that carries the target, and the
\* drop-subscribers with success = false as well; a cancellation notifies
\* end-subscribers only, with data that carries no target.
C12_FailureDistinctFromCancel ==
    /\ FailureReported
    /\ [][(pendingDrops # <<>> /\ ~FailureStep) =>
            \A i \in 1..Len(out'.notes) :
               ~(out'.notes[i].kind = "end" /\ out'.notes[i].data.target # NoPosition)]_vars
    /\ [][CancelStep => CancelNotes(out'.notes)]_vars

\* A cancellation when no drop() is waiting to settle looks like a cancellation.
CancelFromDragging ==
    [][(CancelStep /\ pendingDrops = <<>>) => CancelNotes(out'.notes)]_vars

\* Every position with coordinates around the bench and the board.
Positions ==
    {Bench(i) : i \in -1..(benchSize + 1)}
      \cup {Board(x, y) : x \in -1..(boardWidth + 1), y \in -1..(boardHeight + 1)}

\* The position lies on the bench or on the board.
InBounds(p) ==
    \/ p.type = "bench" /\ 0 <= p.index /\ p.index < benchSize
    \/ p.type = "board" /\ 0 <= p.x /\ p.x < boardWidth /\ 0 <= p.y /\ p.y < boardHeight

\* C13: isValidPosition(p) returns true exactly for Bench(i), 0 <= i < benchSize,
\* and Board(x, y), 0 <= x < boardWidth, 0 <= y < boardHeight, and changes no
\* state; endDrag(target) sends the MoveChess intent whether or not the source
\* and the target are valid: with a live session, what is sent depends on the
\* channel only.
C13_ValidityNeverGatesSending ==
    /\ [](\A p \in Positions : IsValidPosition(p) <=> InBounds(p))
    /\ [][out'.op = "isValidPosition" =>
            /\ out'.result = (IF InBounds(out'.arg) THEN "true" ELSE "false")
            /\ UNCHANGED <<mirrorVars, connVars, eventListeners, txVars, histVars, dragAll>>]_vars
    /\ [][(EndDragWithTarget /\ currentDrag # NoDrag) =>
            /\ Len(out'.sent) = (IF IsConnected THEN 1 ELSE 0)
            /\ IsConnected =>
                 /\ out'.sent[1].type = "MoveChess"
                 /\ out'.sent[1].payload = MoveRequest(currentDrag.source, out'.arg)
                 /\ out'.sent[1].id \in transmitted']_vars

\* A MoveChess sent from an invalid source to an invalid target.
C13_Witness ==
    /\ out.op = "endDrag"
    /\ Len(out.sent) = 1
    /\ out.sent[1].type = "MoveChess"
    /\ currentDrag.source = Board(0, 3) /\ ~IsValidPosition(currentDrag.source)
    /\ out.arg = Bench(9) /\ ~IsValidPosition(out.arg)

(***************************************************************************)
(* State mirror: claims                                                    *)
(***************************************************************************)
\* The pieces the mirror shows, by value.
Shown(refs, h) == [i \in 1..Len(refs) |-> h[refs[i]]]

\* C14: the piece a move-, end- or drop-subscriber is handed has the value it
\* had when startDrag took it, whatever payloads replaced bench and board in
\* between.
C14_SessionHoldsSnapshot ==
    [][\A i \in 1..Len(out'.notes) :
          out'.notes[i].kind \in {"move", "end", "drop"} =>
             heap'[out'.notes[i].data.chessPiece] = snapshots'[out'.notes[i].data.chessPiece]]_vars

\* A drop is reported with the piece at level 1 as it was taken, while the
\* bench of the mirror shows it at level 2 by now.
C14_Witness ==
    /\ out.op = "dropSettled"
    /\ \E i \in 1..Len(out.notes) :
          /\ out.notes[i].kind = "drop"
          /\ heap[out.notes[i].data.chessPiece] = ChessPiece("b1", 1)
    /\ Shown(state.bench, heap) = <<ChessPiece("b1", 2)>>

\* The drag manager and the dispatch of messages leave the mirror as it is.
MirrorUntouchedByDrag ==
    [][out'.op \in {"startDrag", "moveDrag", "endDrag", "cancelDrag", "dropSettled",
                    "message"} =>
        /\ state' = state
        /\ Shown(state'.bench, heap') = Shown(state.bench, heap)
        /\ Shown(state'.board, heap') = Shown(state.board, heap)]_vars

\* C15 (as stated): startDrag, moveDrag, endDrag(target), the optimistic
\* end-notification and the receipt of MoveChessResult{success:false, reason}
\* leave every field of the mirror as it was, and the payload that answers a
\* MoveChess sent is delivered to the subscribers registered for
\* MoveChessResult.
C15_RefusedMoveLeavesMirror ==
    /\ MirrorUntouchedByDrag
    /\ [][(out'.op = "message" /\ out'.arg = MoveFailed /\ transmitted # {}) =>
            out'.invoked = Deliveries(Get(eventListeners, "MoveChessResult"),
                                      "MoveChessResult", InvalidMove)]_vars

\* The step changes money, level or xp in the mirror.
EconomyChanged ==
    \/ state'.money # state.money
    \/ state'.level # state.level
    \/ state'.xp # state.xp

\* C16 (as stated): money, level and xp change in the mirror only when a
\* payload of the server is applied; no click on the Buy XP button changes
\* them.
C16_EconomyOnlyFromServer ==
    [][EconomyChanged => out'.op = "updateState"]_vars

\* The Buy XP button that sends BuyXP changes nothing in the mirror.
BuyXPSendLeavesMirror ==
    [][out'.op = "send" => state' = state]_vars

\* The notifications due for a patch applied to the snapshot `old`: one for
\* each of xp, level and money that the patch carries with another value.
Due(old, patch) ==
    (IF "xp" \in patch.has /\ patch.xp # old.xp THEN <<XPUpdated(patch.xp)>> ELSE <<>>)
    \o (IF "level" \in patch.has /\ patch.level # old.level
          THEN <<LevelUpdated(patch.level)>> ELSE <<>>)
    \o (IF "money" \in patch.has /\ patch.money # old.money
          THEN <<MoneyUpdated(patch.money)>> ELSE <<>>)

\* The same patch applied twice in a row fires nothing the second time.
RepeatedPatchIsSilent ==
    [][(out.op = "updateState" /\ out'.op = "updateState" /\ out'.arg = out.arg) =>
          out'.fired = <<>>]_vars

\* C17 (as stated): updateState(patch) fires the notification of money, level
\* or xp exactly when the patch carries the field with a value other than the
\* snapshot's before the patch, and the same patch applied twice in a row
\* fires nothing the second time.
C17_NotifiesExactlyChanges ==
    /\ [][out'.op = "updateState" => out'.fired = Due(state, out'.arg)]_vars
    /\ RepeatedPatchIsSilent

\* updateState fires what is due whenever the level the patch carries, if
\* any, is not zero.
NotifiesChangesUnlessLevelZero ==
    [][(out'.op = "updateState" /\ ~("level" \in out'.arg.has /\ out'.arg.level = 0)) =>
          out'.fired = Due(state, out'.arg)]_vars

(***************************************************************************)
(* Hex coordinate engine: claims                                           *)
(***************************************************************************)
\* C18: hexToGrid undoes gridToHex wherever gridToHex returns a cell, and
\* gridToHex undoes hexToGrid on every cell of the hex disk.
C18_GridHexRoundTrip ==
    /\ [][(out'.op = "gridToHex" /\ out'.value # <<>>) =>
            HexToGrid(out'.value[1], out'.value[2], out'.value[3]) = out'.arg]_vars
    /\ [][out'.op = "hexToGrid" =>
            GridToHex(out'.value[1], out'.value[2]) = out'.arg]_vars

\* A cell on the rim of the disk has been converted to the grid.
C18_Witness ==
    /\ out.op = "hexToGrid"
    /\ out.arg = <<boardRadius, -boardRadius, 0>>
    /\ GridToHex(out.value[1], out.value[2]) = out.arg

\* C19: gridToHex returns null or a cell with q + r + s = 0 within the radius;
\* a position whose image lies outside the disk gets null.
C19_GridToHexInDiskOrNull ==
    [][out'.op = "gridToHex" =>
        LET q == out'.arg[1] - boardRadius
            r == out'.arg[2] - (boardRadius \div 2)
        IN IF out'.value = <<>>
             THEN ~InDisk(q, r, -q - r)
             ELSE /\ out'.value = <<q, r, -q - r>>
                  /\ out'.value[1] + out'.value[2] + out'.value[3] = 0
                  /\ Max3(Abs(out'.value[1]), Abs(out'.value[2]), Abs(out'.value[3]))
                       <= boardRadius]_vars

\* gridToHex has answered null.
C19_Witness == out.op = "gridToHex" /\ out.value = <<>> /\ out.arg = <<0, 0>>

\* C20 (as stated): gridToHex maps the boardWidth by boardHeight positions of
\* the board to distinct cells of the disk, so updateBoard places every piece
\* the server puts on the board.
C20_BoardMapsIntoDisk ==
    [][out'.op = "updateBoard" =>
         /\ out'.result = "placed"
         /\ out'.value \in HexGrid
         /\ \A x \in 0..(boardWidth - 1), y \in 0..(boardHeight - 1) :
               GridToHex(x, y) = out'.value => <<x, y>> = out'.arg]_vars

\* The board positions that do get a cell get distinct cells.
PlacedOnDistinctCells ==
    [](\A x1, x2 \in 0..(boardWidth - 1), y1, y2 \in 0..(boardHeight - 1) :
          (GridToHex(x1, y1) # <<>> /\ GridToHex(x1, y1) = GridToHex(x2, y2))
             => (x1 = x2 /\ y1 = y2))

(***************************************************************************)
(* Pointer gestures: claims                                                *)
(***************************************************************************)
\* The pointer events that release the pointer.
Release == {"onCardMouseUp", "onCellMouseUp", "mouseup"}

\* The one MoveChess envelope a handler sent for the session `drag`, to the
\* board position `target`.
SentMove(sent, drag, target) ==
    /\ Len(sent) = 1
    /\ sent[1].type = "MoveChess"
    /\ sent[1].payload = MoveChess(FromParam(drag.source),
                                   JsonArray(<<target.x, target.y>>))

\* C21 (as stated): a press on an occupied bench card followed by a release
\* over a board cell, with the channel open, sends exactly one MoveChess from
\* "bench-i" to the cell's [x, y].
C21_BenchToBoardSendsOneMove ==
    [][(/\ out'.op = "onCellMouseUp"
        /\ benchDragging
        /\ currentDrag # NoDrag
        /\ currentDrag.source.type = "bench"
        /\ IsConnected)
         => SentMove(out'.sent, currentDrag, out'.arg)]_vars

\* A release over a board cell of a drag that began on a board cell, with the
\* channel open, sends exactly one MoveChess from the session's source.
BoardToBoardSendsOneMove ==
    [][(/\ out'.op = "onCellMouseUp"
        /\ boardDragging
        /\ currentDrag # NoDrag
        /\ IsConnected)
         => SentMove(out'.sent, currentDrag, out'.arg)]_vars

\* A release over a board cell while BoardUI is not dragging sends nothing and
\* leaves the session as it is.
ReleaseOverCellIgnoredUnlessBoardDrag ==
    [][(out'.op = "onCellMouseUp" /\ ~boardDragging)
         => (out'.sent = <<>> /\ UNCHANGED <<dragAll, gestureVars>>)]_vars

\* C22 (as stated): endDrag leaves no live session, and a session started
\* while the drop of the previous one is suspended is not cleared when that
\* drop settles.
C22_SessionDestroyedAtEndDrag ==
    /\ [][out'.op = "endDrag" => currentDrag' = NoDrag]_vars
    /\ [][(/\ out'.op = "dropSettled"
           /\ currentDrag # NoDrag
           /\ ~pendingDrops[1].attached)
            => currentDrag' = currentDrag]_vars

\* endDrag without a target leaves no live session.
EndDragWithoutTargetDestroys ==
    [][(out'.op = "endDrag" /\ out'.arg = NoPosition) => currentDrag' = NoDrag]_vars

\* When the drop of endDrag(target) settles, the manager holds no session.
SettledDropDestroys ==
    [][out'.op = "dropSettled" => currentDrag' = NoDrag]_vars

\* C28 (as stated): a release ends the drag of the component it began in,
\* BenchUI and BoardUI are never both dragging, and after a release the drag
\* manager eventually holds no live session.
C28_ReleaseFinalizesGesture ==
    /\ [][out'.op \in Release => (~benchDragging' /\ ~boardDragging')]_vars
    /\ [](~(benchDragging /\ boardDragging))
    /\ [](((out.op \in Release) /\ currentDrag # NoDrag) => <>(currentDrag = NoDrag))

\* A release over a bench card ends the drag BenchUI began, and the session
\* with it unless the piece is sold.
ReleaseOverCardFinalizes ==
    [][out'.op = "onCardMouseUp" =>
         /\ ~benchDragging'
         /\ ((benchDragging /\ ~sellZoneHighlighted) => currentDrag' = NoDrag)]_vars

(***************************************************************************)
(* Shop: claims                                                            *)
(***************************************************************************)
\* onRefreshShopResult has run for a successful reply to this player.
RefreshSucceeded ==
    /\ out'.op = "message"
    /\ out'.arg.type = "RefreshShopResult"
    /\ \E i \in 1..Len(out'.invoked) : out'.invoked[i].cb = ShopCallback
    /\ out'.arg.payload.playerId = playerId
    /\ out'.arg.payload.success

\* C23 (as stated): after a successful RefreshShopResult for this player
\* state.shop and state.money are the payload's, and a click on shop card i
\* sends BuyChess for the chess the card shows.
C23_RefreshUpdatesMirror ==
    /\ [][RefreshSucceeded =>
            /\ stateShop' = out'.arg.payload.shop
            /\ state'.money = out'.arg.payload.money]_vars
    /\ [][(out'.op = "onCardClick" /\ out'.arg[1] + 1 \in DOMAIN shownShop /\ IsConnected)
            => /\ Len(out'.sent) = 1
               /\ out'.sent[1].payload = BuyChess(shownShop[out'.arg[1] + 1])]_vars

\* A successful RefreshShopResult for this player is shown by the cards and
\* announced with the money and shop notifications, in that order.
RefreshResultShown ==
    [][RefreshSucceeded =>
         /\ shownShop' = out'.arg.payload.shop
         /\ out'.fired = <<MoneyUpdated(out'.arg.payload.money),
                            ShopUpdated(out'.arg.payload.shop)>>]_vars

\* A click on shop card i, with the channel open, buys the chess state.shop
\* holds in slot i.
CardClickBuysMirrorItem ==
    [][(out'.op = "onCardClick" /\ out'.arg[1] + 1 \in DOMAIN stateShop /\ IsConnected)
         => /\ Len(out'.sent) = 1
            /\ out'.sent[1].type = "BuyChess"
            /\ out'.sent[1].payload = BuyChess(stateShop[out'.arg[1] + 1])]_vars

\* C29 (as stated): the refresh button is enabled again when the send is
\* rejected and when a RefreshShopResult for this player has been handled,
\* whether it reports success or failure.
C29_RefreshButtonReenabled ==
    /\ [][(out'.op = "onRefreshClick" /\ out'.result = "rejected") => refreshEnabled']_vars
    /\ [][(/\ out'.op = "message"
           /\ out'.arg.type = "RefreshShopResult"
           /\ \E i \in 1..Len(out'.invoked) : out'.invoked[i].cb = ShopCallback
           /\ out'.arg.payload.playerId = playerId)
            => refreshEnabled']_vars

\* The button is enabled again when the send is rejected and when a
\* successful RefreshShopResult for this player has been handled.
RefreshButtonReenabledOnSuccess ==
    /\ [][(out'.op = "onRefreshClick" /\ out'.result = "rejected") => refreshEnabled']_vars
    /\ [][RefreshSucceeded => refreshEnabled']_vars

(***************************************************************************)
(* Board rotation: claims                                                  *)
(***************************************************************************)
\* C24: rotateBoard(delta) adds delta to the accumulated rotation and leaves
\* hexGrid, the hex tags of the pieces and the results of gridToHex and
\* hexToGrid as they were.
C24_RotationIsViewTransform ==
    [][out'.op = "rotateBoard" =>
         /\ boardRotation' = boardRotation + out'.arg[1]
         /\ hexGrid' = hexGrid
         /\ pieceTags' = pieceTags
         /\ \A x \in 0..(boardWidth - 1), y \in 0..(boardHeight - 1) :
               GridToHex(x, y)' = GridToHex(x, y)
         /\ \A c \in HexGrid :
               HexToGrid(c[1], c[2], c[3])' = HexToGrid(c[1], c[2], c[3])]_vars

\* The board has been turned two steps with its cells made and a piece on it,
\* and the piece stands where hexToWorld puts its cell under that rotation.
C24_Witness ==
    /\ out.op = "rotateBoard"
    /\ boardRotation = 2
    /\ hexGrid = CreatedHexGrid
    /\ DOMAIN pieceTags = {"p1"}
    /\ piecePositions["p1"] # PiecePosition(pieceTags["p1"], 0)

(***************************************************************************)
(* Connection manager and registry: further claims                         *)
(***************************************************************************)
\* The step is the close event of socket object s.
ClosedBy(s) == out'.op = "close" /\ readyState[s] # "NONE" /\ readyState'[s] = "NONE"

\* C25 (as stated): the close event of a socket object that is not the
\* manager's current socket leaves the current connection alone: the socket
\* field is kept, no reconnect is scheduled, and an open channel stays open.
C25_StaleCloseIsIgnored ==
    [][\A s \in SocketIds :
          (ClosedBy(s) /\ socket # Null /\ socket # s) =>
             /\ socket' = socket
             /\ ~out'.scheduled
             /\ (IsConnected => IsConnected')]_vars

\* The close event of a socket object leaves every other socket object as it
\* is, and the send counters too.
CloseLeavesOtherSocketObjects ==
    [][\A s \in SocketIds :
          ClosedBy(s) =>
             /\ \A o \in SocketIds \ {s} : readyState'[o] = readyState[o]
             /\ UNCHANGED txVars]_vars

\* The close event of any socket object clears the socket field.
CloseClearsSocketField == [][out'.op = "close" => socket' = Null]_vars

\* The subscribers of the type, as they are when the message arrives.
Registered(t) == Get(eventListeners, t)
Some(t, behaviour) ==
    \E i \in 1..Len(Registered(t)) : Behaviour(Registered(t)[i]) = behaviour

\* How many times the step invoked callback cb.
Invocations(cb) == Cardinality({i \in 1..Len(out'.invoked) : out'.invoked[i].cb = cb})

\* C26 (as stated): when a subscriber unsubscribes itself during the dispatch
\* of a message, every other registration of the type is still served once.
C26_OffDuringDispatchKeepsOthers ==
    [][(EnvelopeStep /\ Some(out'.arg.type, "off") /\ ~Some(out'.arg.type, "throw")) =>
         \A cb \in Callbacks :
            Behaviour(cb) # "off" => Invocations(cb) = Count(Registered(out'.arg.type), cb)]_vars

\* C27 (as stated): when a subscriber throws during the dispatch of a message,
\* the exception is caught in the handler, connection and registry are left
\* as they were, and every registration of the type is still served.
C27_ThrowingSubscriberIsContained ==
    [][(EnvelopeStep /\ Some(out'.arg.type, "throw") /\ ~Some(out'.arg.type, "off")) =>
         /\ out'.logged
         /\ UNCHANGED <<connVars, eventListeners>>
         /\ out'.invoked = Deliveries(Registered(out'.arg.type), out'.arg.type,
                                      out'.arg.payload)]_vars

\* The first subscriber of the type that throws or unsubscribes, 0 if none.
FirstDisruptor(t) ==
    IF \E i \in 1..Len(Registered(t)) : Behaviour(Registered(t)[i]) # "return"
      THEN CHOOSE i \in 1..Len(Registered(t)) :
             /\ Behaviour(Registered(t)[i]) # "return"
             /\ \A j \in 1..(i - 1) : Behaviour(Registered(t)[j]) = "return"
      ELSE 0

\* Dispatch serves the registrations up to and including the first subscriber
\* that throws or unsubscribes, once each and in order.
DispatchServesUpToFirstDisruptor ==
    [][(EnvelopeStep /\ FirstDisruptor(out'.arg.type) # 0) =>
         LET t == out'.arg.type
             k == FirstDisruptor(t)
         IN /\ Len(out'.invoked) >= k
            /\ SubSeq(out'.invoked, 1, k)
                 = SubSeq(Deliveries(Registered(t), t, out'.arg.payload), 1, k)]_vars

\* A subscriber that throws is caught by the handler: the error is logged,
\* connection and registry are left as they were, and the thrower is the last
\* subscriber invoked.
ThrowIsCaughtAndEndsDispatch ==
    [][(EnvelopeStep /\ Some(out'.arg.type, "throw") /\ ~Some(out'.arg.type, "off")) =>
         /\ out'.logged
         /\ UNCHANGED <<connVars, eventListeners>>
         /\ Len(out'.invoked) = FirstDisruptor(out'.arg.type)]_vars

(***************************************************************************)
(* Scene manager: claims                                                   *)
(***************************************************************************)
\* C30 (as stated): switchToScene to an unregistered type leaves the scene
\* state as it was, and whenever there is a current scene its entity is
\* enabled and the entity of every other registered scene is disabled.
C30_SceneStateConsistent ==
    /\ [][(out'.op = "switchToScene" /\ out'.result = "unregistered")
            => UNCHANGED <<currentScene, sceneEntities, enabled>>]_vars
    /\ [](currentScene # "null" =>
            /\ enabled[sceneEntities[currentScene]]
            /\ \A t \in DOMAIN sceneEntities :
                  sceneEntities[t] # sceneEntities[currentScene]
                      => ~enabled[sceneEntities[t]])

\* switchToScene to an unregistered type logs an error and keeps
\* getCurrentScene() and the registrations.
UnregisteredSwitchKeepsCurrentScene ==
    [][(out'.op = "switchToScene" /\ out'.result = "unregistered")
         => (out'.logged /\ UNCHANGED <<currentScene, sceneEntities>>)]_vars

\* switchToScene to a registered type other than the current one makes it the
\* current scene and enables its entity.
RegisteredSwitchShowsScene ==
    [][(/\ out'.op = "switchToScene"
        /\ out'.arg[1] \in DOMAIN sceneEntities
        /\ out'.arg[1] # currentScene)
         => (currentScene' = out'.arg[1] /\ enabled'[sceneEntities[out'.arg[1]]])]_vars

====
